---- MODULE Spec2Model ----
(***************************************************************************)
(* A model of the MOSDAC help-bot services: the two RAGService modules     *)
(* (the Groq edge-function one and the transformers-pipeline one) and the  *)
(* KnowledgeGraphBuilder.                                                  *)
(*                                                                         *)
(* Texts are TLA+ strings; JavaScript's string methods are operators over  *)
(* them.  Scores are held in tenths (1.5 is 15), confidences and           *)
(* similarities in hundredths (0.85 is 85).                                *)
(***************************************************************************)
EXTENDS Integers, Sequences, FiniteSets, TLC

(***************************************************************************)
(* JavaScript string and array methods                                     *)
(***************************************************************************)
UpperLetters == "ABCDEFGHIJKLMNOPQRSTUVWXYZ"
LowerLetters == "abcdefghijklmnopqrstuvwxyz"

CharAt(s, i) == SubSeq(s, i, i)

LetterIndexes == 1..Len(UpperLetters)

UpperSet == {CharAt(UpperLetters, i) : i \in LetterIndexes}

LowerSet == {CharAt(LowerLetters, i) : i \in LetterIndexes}

LowerOf == [c \in UpperSet |->
              CharAt(LowerLetters, CHOOSE i \in LetterIndexes : CharAt(UpperLetters, i) = c)]

UpperOf == [c \in LowerSet |->
              CharAt(UpperLetters, CHOOSE i \in LetterIndexes : CharAt(LowerLetters, i) = c)]

\* String.prototype.toLowerCase on one character (ASCII letters).
LowerChar(c) == IF c \in UpperSet THEN LowerOf[c] ELSE c

\* String.prototype.toLowerCase.
RECURSIVE ToLowerCase(_)
ToLowerCase(s) ==
  IF Len(s) = 0 THEN ""
  ELSE IF Len(s) = 1 THEN LowerChar(s)
  ELSE LET h == Len(s) \div 2
       IN  ToLowerCase(SubSeq(s, 1, h)) \o ToLowerCase(SubSeq(s, h + 1, Len(s)))

\* String.prototype.toUpperCase on one character (ASCII letters).
UpperChar(c) == IF c \in LowerSet THEN UpperOf[c] ELSE c

\* String.prototype.toUpperCase.
RECURSIVE ToUpperCase(_)
ToUpperCase(s) ==
  IF Len(s) = 0 THEN ""
  ELSE IF Len(s) = 1 THEN UpperChar(s)
  ELSE LET h == Len(s) \div 2
       IN  ToUpperCase(SubSeq(s, 1, h)) \o ToUpperCase(SubSeq(s, h + 1, Len(s)))

\* String.prototype.includes.
Includes(s, t) ==
  \E i \in 1..(Len(s) - Len(t) + 1) : SubSeq(s, i, i + Len(t) - 1) = t

\* String.prototype.substring(0, n).
Substring0(s, n) == SubSeq(s, 1, IF n < Len(s) THEN n ELSE Len(s))

\* The least index from i on at which Sep holds of the character, or Len(s) + 1.
NextIndex(s, i, Sep(_)) ==
  LET hits == {j \in i..Len(s) : Sep(CharAt(s, j))}
  IN  IF hits = {} THEN Len(s) + 1
      ELSE CHOOSE j \in hits : \A k \in hits : j <= k

IsSpaceChar(c) == c = " "

IsWhitespace(c) == c \in {" ", "\n", "\t", "\r"}

\* String.prototype.split(' '): the pieces between single spaces, empty
\* pieces kept ("" splits to <<"">>).
RECURSIVE SplitSpaceFrom(_, _)
SplitSpaceFrom(s, start) ==
  LET i == NextIndex(s, start, IsSpaceChar)
  IN  IF i > Len(s) THEN <<SubSeq(s, start, Len(s))>>
      ELSE <<SubSeq(s, start, i - 1)>> \o SplitSpaceFrom(s, i + 1)

SplitSpace(s) == SplitSpaceFrom(s, 1)

\* String.prototype.split(/\s+/): the pieces between runs of whitespace.
RECURSIVE SplitWhitespaceFrom(_, _)
SplitWhitespaceFrom(s, start) ==
  LET i == NextIndex(s, start, IsWhitespace)
      j == NextIndex(s, i, LAMBDA c : ~IsWhitespace(c))
  IN  IF i > Len(s) THEN <<SubSeq(s, start, Len(s))>>
      ELSE <<SubSeq(s, start, i - 1)>> \o SplitWhitespaceFrom(s, j)

SplitWhitespace(s) == SplitWhitespaceFrom(s, 1)

\* Array.prototype.filter is SelectSeq; Array.prototype.some:
SomeSeq(xs, P(_)) == \E i \in 1..Len(xs) : P(xs[i])

\* Array.prototype.includes.
IncludesElem(xs, x) == \E i \in 1..Len(xs) : xs[i] = x

\* Array.prototype.slice(0, n).
Slice0(xs, n) == SubSeq(xs, 1, IF n < Len(xs) THEN n ELSE Len(xs))

(***************************************************************************)
(* The knowledge bases the two RAGService modules load                     *)
(* (the micro sign of the source text is written u)                        *)
(***************************************************************************)
GroqDocInsat3D ==
  [id |-> "insat-3d",
   title |-> "INSAT-3D Satellite Mission",
   content |->
     "INSAT-3D is an advanced meteorological satellite launched by ISRO in July 2013. \n" \o
     "        It carries advanced payloads including Imager and Sounder for weather forecasting and disaster warning. \n" \o
     "        The satellite provides crucial data for monsoon prediction, cyclone tracking, and atmospheric studies.\n" \o
     "        Key instruments include 6-channel Imager (0.55-12.5 um) and 19-channel Sounder (4.5-14.7 um).\n" \o
     "        Data products include temperature profiles, humidity profiles, rainfall estimation, and cloud imagery.",
   url |-> "https://mosdac.gov.in/insat-3d",
   entities |-> <<"INSAT-3D", "ISRO", "meteorological satellite", "Imager", "Sounder", "weather forecasting", "monsoon", "cyclone">>,
   keywords |-> <<"weather", "forecasting", "monsoon", "cyclone", "atmospheric">>]

GroqDocOceansat3 ==
  [id |-> "oceansat-3",
   title |-> "Oceansat-3 Earth Observation Mission",
   content |->
     "Oceansat-3 (EOS-06) is an earth observation satellite launched in November 2021. \n" \o
     "        It carries Ocean Colour Monitor-3 (OCM-3) and Sea Surface Temperature Monitor (SSTM) for oceanographic studies.\n" \o
     "        The satellite monitors ocean color, sea surface temperature, and chlorophyll concentration for marine ecosystem studies.\n" \o
     "        Primary applications include fishery forecasting, coastal zone management, and climate studies.\n" \o
     "        Data products include chlorophyll maps, sea surface temperature, and ocean productivity indices.",
   url |-> "https://mosdac.gov.in/oceansat-3",
   entities |-> <<"Oceansat-3", "EOS-06", "OCM-3", "SSTM", "ocean observation", "Ocean Colour Monitor", "Sea Surface Temperature Monitor">>,
   keywords |-> <<"ocean", "marine", "fishery", "coastal", "chlorophyll">>]

GroqDocMeghaTropiques ==
  [id |-> "megha-tropiques",
   title |-> "Megha-Tropiques Indo-French Mission",
   content |->
     "Megha-Tropiques is a joint Indo-French satellite mission launched in 2011 for studying tropical climate.\n" \o
     "        It carries MADRAS microwave radiometer, SAPHIR humidity sounder, and GPS Radio-occultation receiver.\n" \o
     "        The mission focuses on atmospheric water cycle, precipitation measurement, and tropical weather systems.\n" \o
     "        Data products include rainfall estimation, humidity profiles, atmospheric temperature, and water vapor content.\n" \o
     "        The satellite provides crucial data for understanding monsoon patterns and tropical cyclone formation.",
   url |-> "https://mosdac.gov.in/megha-tropiques",
   entities |-> <<"Megha-Tropiques", "Indo-French mission", "MADRAS", "SAPHIR", "tropical climate", "microwave radiometer", "humidity sounder">>,
   keywords |-> <<"tropical", "precipitation", "humidity", "monsoon", "cyclone">>]

GroqDocDataAccess ==
  [id |-> "data-access",
   title |-> "MOSDAC Data Access Policy",
   content |->
     "MOSDAC provides free access to satellite data for research and operational use.\n" \o
     "        Users need to register on the portal and agree to data usage terms.\n" \o
     "        Data is available in various formats including HDF5, NetCDF, and GeoTIFF.\n" \o
     "        Real-time and archive data are accessible through web interface and FTP services.\n" \o
     "        Commercial use requires separate licensing agreements. Educational institutions get priority access.",
   url |-> "https://mosdac.gov.in/data-access-policy",
   entities |-> <<"MOSDAC", "data access", "HDF5", "NetCDF", "GeoTIFF", "registration", "licensing">>,
   keywords |-> <<"access", "policy", "registration", "format", "licensing">>]

GroqDocRainfallProducts ==
  [id |-> "rainfall-products",
   title |-> "Satellite-based Rainfall Products",
   content |->
     "MOSDAC provides multiple rainfall products from various satellite missions.\n" \o
     "        Products include INSAT-3D/3DR Hydro-Estimator, GPM-IMERG, GSMaP, and Megha-Tropiques SAPHIR rainfall.\n" \o
     "        Temporal resolution ranges from 30 minutes to daily, with spatial resolution from 4km to 25km.\n" \o
     "        Data is available in real-time and archive modes for meteorological and hydrological applications.\n" \o
     "        Quality assessment and validation information is provided with each product.",
   url |-> "https://mosdac.gov.in/rainfall-products",
   entities |-> <<"rainfall products", "INSAT-3D", "Hydro-Estimator", "GPM-IMERG", "GSMaP", "SAPHIR rainfall">>,
   keywords |-> <<"rainfall", "precipitation", "hydro-estimator", "real-time", "validation">>]

PipelineDocInsat3D ==
  [id |-> "insat-3d",
   title |-> "INSAT-3D Satellite Mission",
   content |->
     "INSAT-3D is an advanced meteorological satellite launched by ISRO in July 2013. \n" \o
     "        It carries advanced payloads including Imager and Sounder for weather forecasting and disaster warning. \n" \o
     "        The satellite provides crucial data for monsoon prediction, cyclone tracking, and atmospheric studies.\n" \o
     "        Key instruments include 6-channel Imager (0.55-12.5 um) and 19-channel Sounder (4.5-14.7 um).",
   url |-> "https://mosdac.gov.in/insat-3d",
   entities |-> <<"INSAT-3D", "ISRO", "meteorological satellite", "Imager", "Sounder">>,
   embedding |-> "null"]

PipelineDocOceansat3 ==
  [id |-> "oceansat-3",
   title |-> "Oceansat-3 Earth Observation Mission",
   content |->
     "Oceansat-3 (EOS-06) is an earth observation satellite launched in November 2021. \n" \o
     "        It carries Ocean Colour Monitor-3 (OCM-3) and Sea Surface Temperature Monitor (SSTM) for oceanographic studies.\n" \o
     "        The satellite monitors ocean color, sea surface temperature, and chlorophyll concentration for marine ecosystem studies.\n" \o
     "        Primary applications include fishery forecasting, coastal zone management, and climate studies.",
   url |-> "https://mosdac.gov.in/oceansat-3",
   entities |-> <<"Oceansat-3", "EOS-06", "OCM-3", "SSTM", "ocean observation">>,
   embedding |-> "null"]

PipelineDocMeghaTropiques ==
  [id |-> "megha-tropiques",
   title |-> "Megha-Tropiques Indo-French Mission",
   content |->
     "Megha-Tropiques is a joint Indo-French satellite mission launched in 2011 for studying tropical climate.\n" \o
     "        It carries MADRAS microwave radiometer, SAPHIR humidity sounder, and GPS Radio-occultation receiver.\n" \o
     "        The mission focuses on atmospheric water cycle, precipitation measurement, and tropical weather systems.\n" \o
     "        Data products include rainfall estimation, humidity profiles, and atmospheric temperature.",
   url |-> "https://mosdac.gov.in/megha-tropiques",
   entities |-> <<"Megha-Tropiques", "Indo-French", "MADRAS", "SAPHIR", "tropical climate">>,
   embedding |-> "null"]

PipelineDocDataAccess ==
  [id |-> "data-access",
   title |-> "MOSDAC Data Access Policy",
   content |->
     "MOSDAC provides free access to satellite data for research and operational use.\n" \o
     "        Users need to register on the portal and agree to data usage terms.\n" \o
     "        Data is available in various formats including HDF5, NetCDF, and GeoTIFF.\n" \o
     "        Real-time and archive data are accessible through web interface and FTP services.\n" \o
     "        Commercial use requires separate licensing agreements.",
   url |-> "https://mosdac.gov.in/data-access-policy",
   entities |-> <<"MOSDAC", "data access", "HDF5", "NetCDF", "GeoTIFF">>,
   embedding |-> "null"]

PipelineDocRainfallProducts ==
  [id |-> "rainfall-products",
   title |-> "Satellite-based Rainfall Products",
   content |->
     "MOSDAC provides multiple rainfall products from various satellite missions.\n" \o
     "        Products include INSAT-3D/3DR Hydro-Estimator, GPM-IMERG, GSMaP, and Megha-Tropiques SAPHIR rainfall.\n" \o
     "        Temporal resolution ranges from 30 minutes to daily, with spatial resolution from 4km to 25km.\n" \o
     "        Data is available in real-time and archive modes for meteorological and hydrological applications.\n" \o
     "        Quality assessment and validation information is provided with each product.",
   url |-> "https://mosdac.gov.in/rainfall-products",
   entities |-> <<"rainfall", "INSAT-3D", "GPM-IMERG", "GSMaP", "SAPHIR">>,
   embedding |-> "null"]

GroqKnowledgeBase ==
  <<GroqDocInsat3D, GroqDocOceansat3, GroqDocMeghaTropiques,
    GroqDocDataAccess, GroqDocRainfallProducts>>

PipelineKnowledgeBase ==
  <<PipelineDocInsat3D, PipelineDocOceansat3, PipelineDocMeghaTropiques,
    PipelineDocDataAccess, PipelineDocRainfallProducts>>

(***************************************************************************)
(* Bounds and inputs                                                       *)
(***************************************************************************)
\* How many initialize() calls are made on one service instance.
MaxInitCalls == 1

InitCallIds == 1..MaxInitCalls

\* The two RAGService modules of the repository.
Impls == {"groq", "pipeline"}

\* The corpus loadMOSDACKnowledgeBase installs: the literal of the source, or
\* its first document alone (the corpus of the single-document scenarios).
Corpora == {"full", "insatOnly"}

Questions ==
  {"What is Oceansat-3?", "rainfall data", "INSAT-3D rainfall estimation",
   "monsoon cyclone tracking", "hi", "", " satellite"}

\* What supabase.functions.invoke('groq-chat') gives back.
GroqOutcomes == {"answer", "emptyAnswer", "error", "exception", "nullData"}

\* What the question-answering pipeline gives back.
QaOutcomes == {"confident", "lowScore", "emptyAnswer", "nullResult", "exception"}

\* The questions put to the pipeline module: one per fallback trigger met
\* (oceansat, rainfall, insat-3d before rainfall) and one that meets none.
PipelineQuestions ==
  {"What is Oceansat-3?", "rainfall data", "INSAT-3D rainfall estimation",
   "monsoon cyclone tracking"}

\* Math.random() * 0.5 + 0.5, in hundredths: two of its values.
LowSimilarity == 50

HighSimilarity == 90

\* The draws of Math.random for n documents: all low, or one document high.
RandomDraws(n) ==
  {[i \in 1..n |-> IF i = k THEN HighSimilarity ELSE LowSimilarity] : k \in 0..n}

\* What the pipelines do during one askQuestion on n documents: both work,
\* with one of the draws; the token-classification call throws; the
\* feature-extraction call on the question throws.
PipelineRuns(n) ==
  {[ner |-> "tokens", embedded |-> "tensor", randoms |-> r] : r \in RandomDraws(n)}
  \cup {[ner |-> "exception", embedded |-> "tensor",
         randoms |-> [i \in 1..n |-> LowSimilarity]],
        [ner |-> "tokens", embedded |-> "exception",
         randoms |-> [i \in 1..n |-> LowSimilarity]]}

\* The text a completion service answers with.
ServiceAnswer == "Oceansat-3 is an ocean observation satellite."

(***************************************************************************)
(* State                                                                   *)
(***************************************************************************)
VARIABLES
  impl,                       \* which RAGService module is built in
  corpus,                     \* which corpus loadMOSDACKnowledgeBase installs
  isInitialized,              \* RAGService.isInitialized
  arrays,                     \* the array objects made by loadMOSDACKnowledgeBase, by call
  knowledgeBase,              \* RAGService.knowledgeBase: 0 ([]) or the call whose array it is
  questionAnsweringPipeline,  \* non-null
  nerPipeline,                \* non-null
  embeddingPipeline,          \* non-null
  initCalls,                  \* the initialize() calls: where each stands
  loads,                      \* how often loadMOSDACKnowledgeBase ran
  metrics,                    \* AnalyticsService: what localStorage holds
  ask                         \* the last askQuestion call

\* KnowledgeGraphBuilder
VARIABLES
  kgEntities,                 \* KnowledgeGraphBuilder.entities: the Map's values, in insertion order
  kgRelations,                \* KnowledgeGraphBuilder.relations: the Map's values, in insertion order
  kgBuild                     \* the buildGraph call: its documents and where it stands

ragVars ==
  <<impl, corpus, isInitialized, arrays, knowledgeBase, questionAnsweringPipeline,
    nerPipeline, embeddingPipeline, initCalls, loads, metrics, ask>>

kgVars == <<kgEntities, kgRelations, kgBuild>>

\* DocumentProcessor
VARIABLES
  docCall                     \* the last processDocument call: its document and how it ended

docVars == <<docCall>>

\* KnowledgeGraphBuilder.inferRelation, called on its own
VARIABLES
  inferCall                   \* the last inferRelation call: its arguments and its result

inferVars == <<inferCall>>

\* DataIngestionPanel and ChatInterface
VARIABLES
  panel,                      \* DataIngestionPanel: its state and its startIngestion calls
  chat                        \* ChatInterface: its state and the askQuestion call under way

uiVars == <<panel, chat>>

vars == <<ragVars, kgVars, docVars, inferVars, uiVars>>

\* The documents this.knowledgeBase holds.
KnowledgeBaseDocs == IF knowledgeBase = 0 THEN <<>> ELSE arrays[knowledgeBase]

\* The array literal of loadMOSDACKnowledgeBase.
GroqCorpus(c) == IF c = "full" THEN GroqKnowledgeBase ELSE <<GroqDocInsat3D>>

PipelineCorpus(c) == IF c = "full" THEN PipelineKnowledgeBase ELSE <<PipelineDocInsat3D>>

(***************************************************************************)
(* RAGService (Groq): retrieval by keyword matching                        *)
(***************************************************************************)
\* questionLower.split(' ').filter(word => word.length > 3)
QuestionWords(questionLower) ==
  SelectSeq(SplitSpace(questionLower), LAMBDA word : Len(word) > 3)

\* What one question word adds to a document's score, in tenths.
WordScore(doc, word) ==
    (IF Includes(ToLowerCase(doc.content), word) THEN 10 ELSE 0)
  + (IF SomeSeq(doc.keywords, LAMBDA keyword : Includes(ToLowerCase(keyword), word))
     THEN 15 ELSE 0)
  + (IF SomeSeq(doc.entities, LAMBDA entity : Includes(ToLowerCase(entity), word))
     THEN 20 ELSE 0)

RECURSIVE SumWordScores(_, _)
SumWordScores(doc, words) ==
  IF words = <<>> THEN 0
  ELSE WordScore(doc, Head(words)) + SumWordScores(doc, Tail(words))

\* The title check: +2 when the title holds the question's first piece.
TitleScore(doc, questionLower) ==
  IF Includes(ToLowerCase(doc.title), SplitSpace(questionLower)[1]) THEN 20 ELSE 0

\* The score findRelevantDocuments gives one document, in tenths.
DocScore(doc, question) ==
  LET questionLower == ToLowerCase(question)
  IN  TitleScore(doc, questionLower)
      + SumWordScores(doc, QuestionWords(questionLower))

\* Array.prototype.sort with the comparator (a, b) => b.key - a.key, on
\* <<key, element>> pairs: descending and stable, by insertion.
RECURSIVE InsertDesc(_, _)
InsertDesc(sorted, pair) ==
  IF sorted = <<>> THEN <<pair>>
  ELSE IF Head(sorted)[1] >= pair[1] THEN <<Head(sorted)>> \o InsertDesc(Tail(sorted), pair)
  ELSE <<pair>> \o sorted

RECURSIVE SortPairsDesc(_, _)
SortPairsDesc(sorted, pairs) ==
  IF pairs = <<>> THEN sorted
  ELSE SortPairsDesc(InsertDesc(sorted, Head(pairs)), Tail(pairs))

SortDescBy(xs, Key(_)) ==
  LET sorted == SortPairsDesc(<<>>, [i \in 1..Len(xs) |-> <<Key(xs[i]), xs[i]>>])
  IN  [i \in 1..Len(sorted) |-> sorted[i][2]]

\* .slice(0, 3)
TopK == 3

\* private findRelevantDocuments(question) of the Groq module.
GroqFindRelevantDocuments(question, kb) ==
  LET scoredDocs == [i \in 1..Len(kb) |-> [score |-> DocScore(kb[i], question)] @@ kb[i]]
      positive   == SelectSeq(scoredDocs, LAMBDA doc : doc.score > 0)
  IN  Slice0(SortDescBy(positive, LAMBDA doc : doc.score), TopK)

\* The scores findRelevantDocuments gives the documents of a knowledge base,
\* in corpus order.
GroqScores(question, kb) == [i \in 1..Len(kb) |-> DocScore(kb[i], question)]

\* findRelevantDocuments on the corpus the source loads, computed once per
\* question; any other knowledge base is scored on the spot.
GroqScoreTable ==
  [c \in Corpora |-> [q \in Questions |-> GroqScores(q, GroqCorpus(c))]]

GroqScoresOf(question, kb) ==
  IF \E c \in Corpora : kb = GroqCorpus(c) /\ question \in Questions
  THEN GroqScoreTable[CHOOSE c \in Corpora : kb = GroqCorpus(c)][question]
  ELSE GroqScores(question, kb)

GroqRetrievalTable ==
  [c \in Corpora |-> [q \in Questions |-> GroqFindRelevantDocuments(q, GroqCorpus(c))]]

GroqRetrieve(question, kb) ==
  IF \E c \in Corpora : kb = GroqCorpus(c) /\ question \in Questions
  THEN GroqRetrievalTable[CHOOSE c \in Corpora : kb = GroqCorpus(c)][question]
  ELSE GroqFindRelevantDocuments(question, kb)

(***************************************************************************)
(* RAGService (pipeline): retrieval by embeddings                          *)
(***************************************************************************)
\* calculateCosineSimilarity: 0 without both embeddings, else the random
\* placeholder, whose draw is `random`.
CalculateCosineSimilarity(embedding1, embedding2, random) ==
  IF embedding1 = "null" \/ embedding2 = "null" THEN 0 ELSE random

\* calculateKeywordSimilarity(text1, text2) > 0.3
KeywordSimilarityAbove03(text1, text2) ==
  LET words1 == SplitWhitespace(text1)
      words2 == SplitWhitespace(text2)
      commonWords == SelectSeq(words1, LAMBDA word : IncludesElem(words2, word) /\ Len(word) > 3)
      longest == IF Len(words1) > Len(words2) THEN Len(words1) ELSE Len(words2)
  IN  10 * Len(commonWords) > 3 * longest

\* The similarities findRelevantDocuments gives the documents of a knowledge
\* base, in corpus order; -1 where it computes none.
PipelineScores(kb, hasEmbeddingPipeline, embedded, randoms) ==
  [i \in 1..Len(kb) |->
     IF hasEmbeddingPipeline /\ embedded = "tensor"
     THEN CalculateCosineSimilarity("tensor", kb[i].embedding, randoms[i])
     ELSE -1]

\* doc.similarity || 0, for a document that may carry no similarity.
SimilarityOr0(doc) == IF "similarity" \in DOMAIN doc THEN doc.similarity ELSE 0

\* private findRelevantDocuments(question) of the pipeline module.  embedded is
\* what the feature-extraction call on the question did, randoms the draws of
\* Math.random, one per document.
PipelineFindRelevantDocuments(question, kb, hasEmbeddingPipeline, embedded, randoms) ==
  IF ~hasEmbeddingPipeline
  THEN Slice0(SelectSeq(kb, LAMBDA doc :
                 KeywordSimilarityAbove03(ToLowerCase(question), ToLowerCase(doc.content))),
              TopK)
  ELSE IF embedded = "exception"
  THEN Slice0(kb, TopK)
  ELSE LET similarities ==
             [i \in 1..Len(kb) |->
                [similarity |-> CalculateCosineSimilarity("tensor", kb[i].embedding, randoms[i])]
                @@ kb[i]]
       IN  Slice0(SortDescBy(similarities, SimilarityOr0), TopK)

(***************************************************************************)
(* Answers                                                                 *)
(***************************************************************************)
GroqDefaultAnswer == "I couldn't process your question. Please try again."

GroqErrorAnswer ==
  "I apologize, but I encountered an error processing your question. " \o
  "Please try rephrasing or ask about MOSDAC satellites, data products, or access policies."

NotFoundAnswer ==
  "I apologize, but I couldn't find relevant information to answer your question. " \o
  "Please try rephrasing or ask about MOSDAC satellites, data products, or access policies."

InsatAnswer ==
  "INSAT-3D is an advanced meteorological satellite launched by ISRO in July 2013. " \o
  "It provides weather forecasting and disaster warning capabilities with its Imager " \o
  "and Sounder instruments."

OceansatAnswer ==
  "Oceansat-3 is an earth observation satellite that monitors ocean color, sea surface " \o
  "temperature, and marine ecosystems using OCM-3 and SSTM instruments."

DataAccessAnswer ==
  "MOSDAC provides free access to satellite data for research use. You need to register " \o
  "on the portal and can access data in HDF5, NetCDF, and GeoTIFF formats."

RainfallAnswer ==
  "MOSDAC offers various satellite-based rainfall products including INSAT-3D " \o
  "Hydro-Estimator, GPM-IMERG, and GSMaP with different temporal and spatial resolutions."

ExcerptPrefix == "Based on MOSDAC information: "

CapabilityAnswer ==
  "I can help you with information about MOSDAC satellites, data products, access " \o
  "policies, and more. Please ask me about specific missions like INSAT-3D, Oceansat-3, " \o
  "or data access procedures."

\* private generateFallbackAnswer(question, relevantDocs)
GenerateFallbackAnswer(question, relevantDocs) ==
  LET questionLower == ToLowerCase(question)
  IN  IF Includes(questionLower, "insat-3d") THEN InsatAnswer
      ELSE IF Includes(questionLower, "oceansat") THEN OceansatAnswer
      ELSE IF Includes(questionLower, "data access") \/ Includes(questionLower, "download")
           THEN DataAccessAnswer
      ELSE IF Includes(questionLower, "rainfall") \/ Includes(questionLower, "precipitation")
           THEN RainfallAnswer
      ELSE IF Len(relevantDocs) > 0
           THEN ExcerptPrefix \o Substring0(relevantDocs[1].content, 300) \o "..."
      ELSE CapabilityAnswer

\* Whether generateAnswer calls the question-answering pipeline at all.
GenerateAnswerCallsPipeline(hasQaPipeline, relevantDocs) ==
  hasQaPipeline /\ Len(relevantDocs) # 0

\* private generateAnswer(question, relevantDocs); result is what the
\* question-answering pipeline did.
GenerateAnswer(question, relevantDocs, hasQaPipeline, result) ==
  IF ~GenerateAnswerCallsPipeline(hasQaPipeline, relevantDocs) THEN NotFoundAnswer
  ELSE IF result = "confident" THEN ServiceAnswer
  ELSE GenerateFallbackAnswer(question, relevantDocs)

\* The tokens the token-classification pipeline returns, scores in hundredths.
NerTokens ==
  <<[word |-> "Oceansat", entity |-> "B-MISC", score |-> 95],
    [word |-> "is", entity |-> "O", score |-> 99],
    [word |-> "data", entity |-> "I-MISC", score |-> 60]>>

\* private extractEntities(text) of the pipeline module.
PipelineExtractEntities(hasNerPipeline, outcome) ==
  IF ~hasNerPipeline \/ outcome = "exception" THEN <<>>
  ELSE LET kept == SelectSeq(NerTokens, LAMBDA token : token.entity # "O" /\ token.score > 80)
       IN  [i \in 1..Len(kept) |->
              [text |-> kept[i].word, label |-> kept[i].entity, confidence |-> kept[i].score]]

\* The sources of a response: one per relevant document.
GroqSources(relevantDocs) ==
  [i \in 1..Len(relevantDocs) |->
     [title |-> relevantDocs[i].title,
      url |-> relevantDocs[i].url,
      snippet |-> Substring0(relevantDocs[i].content, 200) \o "...",
      confidence |-> 80]]

PipelineSources(relevantDocs) ==
  [i \in 1..Len(relevantDocs) |->
     [title |-> relevantDocs[i].title,
      url |-> relevantDocs[i].url,
      snippet |-> Substring0(relevantDocs[i].content, 200) \o "...",
      confidence |-> IF SimilarityOr0(relevantDocs[i]) # 0
                     THEN relevantDocs[i].similarity ELSE 80]]

(***************************************************************************)
(* RAGService.initialize                                                   *)
(***************************************************************************)
\* private calculateTotalEntities(): distinct entity strings, case folded.
CalculateTotalEntities(kb) ==
  Cardinality(UNION {{ToLowerCase(kb[i].entities[j]) : j \in 1..Len(kb[i].entities)} :
                      i \in 1..Len(kb)})

\* private calculateTotalRelations(): entity pairs within each document.
RECURSIVE CalculateTotalRelations(_)
CalculateTotalRelations(kb) ==
  IF kb = <<>> THEN 0
  ELSE LET entityCount == Len(Head(kb).entities)
       IN  (entityCount * (entityCount - 1)) \div 2 + CalculateTotalRelations(Tail(kb))

\* What AnalyticsService.getMetrics returns with nothing stored.
NoMetrics ==
  [stored |-> FALSE, documentsProcessed |-> 0, knowledgeEntities |-> 0, relationsMapped |-> 0]

\* What the two AnalyticsService updates of initialize do with localStorage.
AnalyticsOutcomes == {"saved", "firstThrows", "secondThrows"}

\* An initialize() call that has not been made yet.
IdleCall == [pc |-> "idle", idx |-> 0]

SetPc(c, pc) == initCalls' = [initCalls EXCEPT ![c] = [pc |-> pc, idx |-> 0]]

\* initialize() is entered: it returns at once when initialized; the Groq
\* module runs loadMOSDACKnowledgeBase up to its await, the pipeline module
\* starts loading its first model.
InitializeCall(c) ==
  /\ initCalls[c].pc = "idle"
  /\ \A d \in InitCallIds : d < c => initCalls[d].pc # "idle"
  /\ IF isInitialized
     THEN /\ SetPc(c, "done")
          /\ UNCHANGED <<arrays, knowledgeBase, loads>>
     ELSE IF impl = "groq"
     THEN /\ arrays' = [arrays EXCEPT ![c] = GroqCorpus(corpus)]
          /\ knowledgeBase' = c
          /\ loads' = loads + 1
          /\ SetPc(c, "analytics")
     ELSE /\ SetPc(c, "qaModel")
          /\ UNCHANGED <<arrays, knowledgeBase, loads>>
  /\ UNCHANGED <<kgVars, docVars, inferVars, uiVars>>
  /\ UNCHANGED <<impl, corpus, isInitialized, questionAnsweringPipeline, nerPipeline,
                 embeddingPipeline, metrics, ask>>

\* Groq module: the rest of initialize after `await loadMOSDACKnowledgeBase()`:
\* the analytics updates, then isInitialized = true; a throwing update rejects.
GroqInitializeFinish(c, outcome) ==
  /\ initCalls[c].pc = "analytics"
  /\ LET totalEntities  == CalculateTotalEntities(KnowledgeBaseDocs)
         totalRelations == CalculateTotalRelations(KnowledgeBaseDocs)
         first  == [metrics EXCEPT !.stored = TRUE, !.knowledgeEntities = totalEntities,
                                   !.relationsMapped = totalRelations]
         second == [first EXCEPT !.documentsProcessed = Len(KnowledgeBaseDocs)]
     IN  \/ /\ outcome = "saved"
            /\ metrics' = second
            /\ isInitialized' = TRUE
            /\ SetPc(c, "done")
         \/ /\ outcome = "firstThrows"
            /\ SetPc(c, "failed")
            /\ UNCHANGED <<metrics, isInitialized>>
         \/ /\ outcome = "secondThrows"
            /\ metrics' = first
            /\ SetPc(c, "failed")
            /\ UNCHANGED isInitialized
  /\ UNCHANGED <<kgVars, docVars, inferVars, uiVars>>
  /\ UNCHANGED <<impl, corpus, arrays, knowledgeBase, questionAnsweringPipeline,
                 nerPipeline, embeddingPipeline, loads, ask>>

\* Pipeline module: one `await pipeline(...)` resolves.  After the third the
\* call runs loadMOSDACKnowledgeBase up to its first embedding await.
PipelineModelLoaded(c) ==
  /\ \/ /\ initCalls[c].pc = "qaModel"
        /\ questionAnsweringPipeline' = TRUE
        /\ SetPc(c, "nerModel")
        /\ UNCHANGED <<nerPipeline, embeddingPipeline, arrays, knowledgeBase, loads>>
     \/ /\ initCalls[c].pc = "nerModel"
        /\ nerPipeline' = TRUE
        /\ SetPc(c, "embedModel")
        /\ UNCHANGED <<questionAnsweringPipeline, embeddingPipeline, arrays, knowledgeBase, loads>>
     \/ /\ initCalls[c].pc = "embedModel"
        /\ embeddingPipeline' = TRUE
        /\ arrays' = [arrays EXCEPT ![c] = PipelineCorpus(corpus)]
        /\ knowledgeBase' = c
        /\ loads' = loads + 1
        /\ initCalls' = [initCalls EXCEPT ![c] = [pc |-> "embedding", idx |-> 1]]
        /\ UNCHANGED <<questionAnsweringPipeline, nerPipeline>>
  /\ UNCHANGED <<kgVars, docVars, inferVars, uiVars>>
  /\ UNCHANGED <<impl, corpus, isInitialized, metrics, ask>>

\* Pipeline module: the embedding of one item of the call's array resolves;
\* after the last item isInitialized = true.
PipelineEmbedItem(c) ==
  /\ initCalls[c].pc = "embedding"
  /\ LET i == initCalls[c].idx
     IN  /\ arrays' = [arrays EXCEPT ![c][i].embedding = "tensor"]
         /\ IF i = Len(arrays[c])
            THEN /\ isInitialized' = TRUE
                 /\ SetPc(c, "done")
            ELSE /\ initCalls' = [initCalls EXCEPT ![c].idx = i + 1]
                 /\ UNCHANGED isInitialized
  /\ UNCHANGED <<kgVars, docVars, inferVars, uiVars>>
  /\ UNCHANGED <<impl, corpus, knowledgeBase, questionAnsweringPipeline, nerPipeline,
                 embeddingPipeline, loads, metrics, ask>>

\* Pipeline module: a model load or an embedding rejects; initialize rethrows.
PipelineInitializeFails(c) ==
  /\ initCalls[c].pc \in {"qaModel", "nerModel", "embedModel", "embedding"}
  /\ SetPc(c, "failed")
  /\ UNCHANGED <<kgVars, docVars, inferVars, uiVars>>
  /\ UNCHANGED <<impl, corpus, isInitialized, arrays, knowledgeBase,
                 questionAnsweringPipeline, nerPipeline, embeddingPipeline, loads,
                 metrics, ask>>

(***************************************************************************)
(* RAGService (Groq): extractEntitiesFromContext                           *)
(***************************************************************************)
\* The entityPatterns: each a case-insensitive alternation of literals, in
\* the order the alternatives are tried.
EntityPatterns ==
  <<[alts |-> <<"insat-3d", "insat-3dr">>, label |-> "SATELLITE"],
    [alts |-> <<"oceansat-3", "oceansat-2", "eos-06">>, label |-> "SATELLITE"],
    [alts |-> <<"megha-tropiques">>, label |-> "SATELLITE"],
    [alts |-> <<"madras", "saphir", "ocm-3", "sstm", "imager", "sounder", "hydro-estimator">>,
     label |-> "INSTRUMENT"],
    [alts |-> <<"isro", "mosdac">>, label |-> "ORGANIZATION"],
    [alts |-> <<"rainfall", "precipitation", "humidity", "temperature", "chlorophyll",
                "ocean color">>,
     label |-> "DATA_PRODUCT"]>>

\* The length of the first alternative that matches at position j, or 0.
MatchLengthAt(lowerText, j, alts) ==
  LET fits == {k \in 1..Len(alts) :
                 /\ j + Len(alts[k]) - 1 <= Len(lowerText)
                 /\ SubSeq(lowerText, j, j + Len(alts[k]) - 1) = alts[k]}
  IN  IF fits = {} THEN 0
      ELSE Len(alts[CHOOSE k \in fits : \A m \in fits : k <= m])

\* String.prototype.match with a global pattern: the matches left to right,
\* each search resuming after the previous match.
RECURSIVE MatchesFrom(_, _, _, _, _)
MatchesFrom(text, lowerText, alts, hits, pos) ==
  LET rest == {j \in hits : j >= pos}
  IN  IF rest = {} THEN <<>>
      ELSE LET j == CHOOSE j \in rest : \A k \in rest : j <= k
               n == MatchLengthAt(lowerText, j, alts)
           IN  <<SubSeq(text, j, j + n - 1)>> \o MatchesFrom(text, lowerText, alts, hits, j + n)

MatchAll(text, alts) ==
  LET lowerText == ToLowerCase(text)
      hits == {j \in 1..Len(text) : MatchLengthAt(lowerText, j, alts) > 0}
  IN  MatchesFrom(text, lowerText, alts, hits, 1)

\* [...new Set(matches)]: first occurrences, in order.
UniqueSeq(xs) ==
  LET firsts == {i \in 1..Len(xs) : \A j \in 1..(i - 1) : xs[j] # xs[i]}
      place(i) == Cardinality({j \in firsts : j <= i})
  IN  [p \in 1..Cardinality(firsts) |-> xs[CHOOSE i \in firsts : place(i) = p]]

\* Array.prototype.join(' ') of the documents' contents.
RECURSIVE JoinContents(_)
JoinContents(docs) ==
  IF docs = <<>> THEN ""
  ELSE IF Len(docs) = 1 THEN docs[1].content
  ELSE docs[1].content \o " " \o JoinContents(Tail(docs))

RECURSIVE EntitiesOfPatterns(_, _)
EntitiesOfPatterns(searchText, patterns) ==
  IF patterns = <<>> THEN <<>>
  ELSE LET uniqueMatches == UniqueSeq(MatchAll(searchText, Head(patterns).alts))
       IN  [i \in 1..Len(uniqueMatches) |->
              [text |-> uniqueMatches[i], label |-> Head(patterns).label, confidence |-> 90]]
           \o EntitiesOfPatterns(searchText, Tail(patterns))

\* private extractEntitiesFromContext(question, relevantDocs)
ExtractEntitiesFromContext(question, relevantDocs) ==
  EntitiesOfPatterns(question \o " " \o JoinContents(relevantDocs), EntityPatterns)

\* extractEntitiesFromContext after findRelevantDocuments on the corpus the
\* source loads, computed once per question.
GroqEntitiesTable ==
  [c \in Corpora |-> [q \in Questions |->
      ExtractEntitiesFromContext(q, GroqRetrievalTable[c][q])]]

GroqEntities(question, relevantDocs) ==
  IF \E c \in Corpora : question \in Questions /\ relevantDocs = GroqRetrievalTable[c][question]
  THEN GroqEntitiesTable[CHOOSE c \in Corpora : relevantDocs = GroqRetrievalTable[c][question]][question]
  ELSE ExtractEntitiesFromContext(question, relevantDocs)

(***************************************************************************)
(* RAGService.askQuestion                                                  *)
(***************************************************************************)
NotInitializedError == "RAG Service not initialized"

\* No askQuestion call made yet.
NoAsk ==
  [pc |-> "none", question |-> "", docs |-> <<>>, nerEntities |-> <<>>,
   invocations |-> 0, error |-> "", answer |-> "", sources |-> <<>>, entities |-> <<>>,
   hasAnswer |-> FALSE, hasSources |-> FALSE, hasEntities |-> FALSE,
   \* what the call saw, kept for the record: the score of every document of
   \* the knowledge base, the embeddings the knowledge base held, what the
   \* question's embedding call and the completion service did
   scores |-> <<>>, embeddings |-> <<>>, embedded |-> "", outcome |-> ""]

\* A response that lacks the entities field.
ReturnedNoEntities(call, answer, sources, entities) ==
  [call EXCEPT !.pc = "returned", !.answer = answer, !.sources = sources,
               !.hasAnswer = TRUE, !.hasSources = TRUE]

\* The call returns a RAGResponse.
Returned(call, answer, sources, entities) ==
  [call EXCEPT !.pc = "returned", !.answer = answer, !.sources = sources,
               !.entities = entities, !.hasAnswer = TRUE, !.hasSources = TRUE,
               !.hasEntities = TRUE]

RagFrame ==
  /\ UNCHANGED <<impl, corpus, isInitialized, arrays, knowledgeBase,
                 questionAnsweringPipeline, nerPipeline, embeddingPipeline, initCalls,
                 loads, metrics>>
  /\ UNCHANGED <<kgVars, docVars, inferVars, uiVars>>

\* A guard that answers with the apology instead of throwing.
AskQuestionNotInitializedHandled(question) ==
  /\ ask.pc # "awaiting"
  /\ ~isInitialized
  /\ ask' = Returned([NoAsk EXCEPT !.question = question], GroqErrorAnswer, <<>>, <<>>)
  /\ RagFrame

\* askQuestion on a service that is not initialized: the guard throws.
AskQuestionNotInitialized(question) ==
  /\ ask.pc # "awaiting"
  /\ ~isInitialized
  /\ ask' = [NoAsk EXCEPT !.pc = "threw", !.question = question,
                          !.error = NotInitializedError]
  /\ RagFrame

\* Groq module: retrieval, the context, and the call of the edge function,
\* on whose answer the call now waits.
GroqAskQuestion(question) ==
  /\ ask.pc # "awaiting"
  /\ impl = "groq"
  /\ isInitialized
  /\ ask' = [NoAsk EXCEPT !.pc = "awaiting", !.question = question,
                          !.docs = GroqRetrieve(question, KnowledgeBaseDocs),
                          !.scores = GroqScoresOf(question, KnowledgeBaseDocs),
                          !.invocations = 1]
  /\ RagFrame

\* data.answer alone, without the default sentence.
GroqAnswerOfNoDefault(outcome) == IF outcome = "answer" THEN ServiceAnswer ELSE ""

\* The answer the Groq module returns on a usable invocation result:
\* data.answer || the default sentence.
GroqAnswerOf(outcome) == IF outcome = "answer" THEN ServiceAnswer ELSE GroqDefaultAnswer

\* Groq module: the invocation settles.  An error result, a rejected call and
\* a result without data all end in the catch block.
GroqAskQuestionReturn(outcome) ==
  /\ ask.pc = "awaiting"
  /\ impl = "groq"
  /\ IF outcome \in {"error", "exception", "nullData"}
     THEN ask' = Returned([ask EXCEPT !.outcome = outcome], GroqErrorAnswer, <<>>, <<>>)
     ELSE ask' = Returned([ask EXCEPT !.outcome = outcome], GroqAnswerOf(outcome),
                          GroqSources(ask.docs), GroqEntities(ask.question, ask.docs))
  /\ RagFrame

\* Pipeline module: entity extraction from the question, retrieval, and
\* generateAnswer up to its call of the question-answering pipeline.
PipelineAskQuestion(question, run) ==
  /\ ask.pc # "awaiting"
  /\ impl = "pipeline"
  /\ isInitialized
  /\ LET relevantDocs == PipelineFindRelevantDocuments(question, KnowledgeBaseDocs,
                                                       embeddingPipeline, run.embedded,
                                                       run.randoms)
     IN  ask' = [NoAsk EXCEPT
                   !.pc = "awaiting", !.question = question, !.docs = relevantDocs,
                   !.nerEntities = PipelineExtractEntities(nerPipeline, run.ner),
                   !.scores = PipelineScores(KnowledgeBaseDocs, embeddingPipeline,
                                             run.embedded, run.randoms),
                   !.embeddings = [i \in 1..Len(KnowledgeBaseDocs) |->
                                     KnowledgeBaseDocs[i].embedding],
                   !.embedded = run.embedded,
                   !.invocations =
                     IF GenerateAnswerCallsPipeline(questionAnsweringPipeline, relevantDocs)
                     THEN 1 ELSE 0]
  /\ RagFrame

\* Pipeline module: generateAnswer settles and the response is assembled.
PipelineAskQuestionReturn(result) ==
  /\ ask.pc = "awaiting"
  /\ impl = "pipeline"
  /\ ask' = Returned([ask EXCEPT !.outcome = result],
                     GenerateAnswer(ask.question, ask.docs, questionAnsweringPipeline, result),
                     PipelineSources(ask.docs), ask.nerEntities)
  /\ RagFrame

(***************************************************************************)
(* KnowledgeGraphBuilder                                                   *)
(***************************************************************************)
\* String.prototype.substring(start, end): both clamped to the string and
\* swapped when start > end; offsets count from 0.
Substring(s, start, end) ==
  LET Clamp(n) == IF n < 0 THEN 0 ELSE IF n > Len(s) THEN Len(s) ELSE n
      a == Clamp(start)
      b == Clamp(end)
  IN  IF a <= b THEN SubSeq(s, a + 1, b) ELSE SubSeq(s, b + 1, a)

\* String.prototype.replace(/\s+/g, '_').
RECURSIVE ReplaceWhitespaceFrom(_, _)
ReplaceWhitespaceFrom(s, i) ==
  IF i > Len(s) THEN ""
  ELSE IF IsWhitespace(CharAt(s, i))
       THEN "_" \o ReplaceWhitespaceFrom(s, NextIndex(s, i, LAMBDA c : ~IsWhitespace(c)))
       ELSE CharAt(s, i) \o ReplaceWhitespaceFrom(s, i + 1)

ReplaceWhitespace(s) == ReplaceWhitespaceFrom(s, 1)

Max(a, b) == IF a >= b THEN a ELSE b

Min(a, b) == IF a <= b THEN a ELSE b

Abs(a) == IF a < 0 THEN 0 - a ELSE a

RECURSIVE Gcd(_, _)
Gcd(a, b) == IF b = 0 THEN a ELSE Gcd(b, a % b)

\* The number a / b, as a fraction in lowest terms.
Quotient(a, b) == [num |-> a \div Gcd(a, b), den |-> b \div Gcd(a, b)]

\* An id that keeps the case of label and text.
GenerateEntityIdKeepCase(text, label) == label \o "_" \o ReplaceWhitespace(text)

\* generateEntityId.
GenerateEntityId(text, label) ==
  ToLowerCase(label) \o "_" \o ReplaceWhitespace(ToLowerCase(text))

\* generateEntityDescription.
GenerateEntityDescription(entity) ==
  IF entity.label = "SATELLITE" THEN "Earth observation or meteorological satellite"
  ELSE IF entity.label = "INSTRUMENT" THEN "Scientific instrument or sensor"
  ELSE IF entity.label = "ORGANIZATION" THEN "Space agency or research organization"
  ELSE IF entity.label = "DATA_PRODUCT" THEN "Satellite-derived data product"
  ELSE IF entity.label = "MISSION" THEN "Space mission or application domain"
  ELSE "Entity identified in MOSDAC documentation"

\* Map.prototype.has, get and set on a Map held as the sequence of its values,
\* each value carrying its key as id.
MapHas(map, id) == \E i \in 1..Len(map) : map[i].id = id

MapIndex(map, id) == CHOOSE i \in 1..Len(map) : map[i].id = id

MapGet(map, id) == map[MapIndex(map, id)]

MapSet(map, value) ==
  IF MapHas(map, value.id)
  THEN [map EXCEPT ![MapIndex(map, value.id)] = value]
  ELSE Append(map, value)

\* A merge that counts the mention and leaves avgConfidence as it was.
MergeEntityKeepingAverage(map, entity, doc) ==
  LET entityId == GenerateEntityId(entity.text, entity.label)
  IN  IF MapHas(map, entityId)
      THEN LET existing == MapGet(map, entityId)
               frequency == existing.properties.frequency + 1
               totalConfidence == existing.properties.totalConfidence + entity.confidence
           IN  MapSet(map,
                 [existing EXCEPT
                    !.documents = Append(existing.documents, doc.url),
                    !.properties = [existing.properties EXCEPT
                       !.frequency = frequency,
                       !.totalConfidence = totalConfidence,
                       !.avgConfidence = existing.properties.avgConfidence]])
      ELSE MapSet(map,
             [id |-> entityId,
              name |-> entity.text,
              type |-> ToLowerCase(entity.label),
              description |-> GenerateEntityDescription(entity),
              properties |-> [frequency |-> 1,
                              totalConfidence |-> entity.confidence,
                              avgConfidence |-> Quotient(entity.confidence, 1),
                              firstSeen |-> doc.url],
              documents |-> <<doc.url>>])

\* The body of the loop of extractEntities: one mention of one document is
\* merged into the entity Map.
\* A variant of the merge that lists a document once per node however many
\* of its mentions are folded in.
MergeEntityOncePerDocument(map, entity, doc) ==
  LET entityId == GenerateEntityId(entity.text, entity.label)
  IN  IF MapHas(map, entityId)
      THEN LET existing == MapGet(map, entityId)
               frequency == existing.properties.frequency + 1
               totalConfidence == existing.properties.totalConfidence + entity.confidence
           IN  MapSet(map,
                 [existing EXCEPT
                    !.documents = IF IncludesElem(existing.documents, doc.url)
                                  THEN existing.documents
                                  ELSE Append(existing.documents, doc.url),
                    !.properties = [existing.properties EXCEPT
                       !.frequency = frequency,
                       !.totalConfidence = totalConfidence,
                       !.avgConfidence = Quotient(totalConfidence, frequency)]])
      ELSE MapSet(map,
             [id |-> entityId,
              name |-> entity.text,
              type |-> ToLowerCase(entity.label),
              description |-> GenerateEntityDescription(entity),
              properties |-> [frequency |-> 1,
                              totalConfidence |-> entity.confidence,
                              avgConfidence |-> Quotient(entity.confidence, 1),
                              firstSeen |-> doc.url],
              documents |-> <<doc.url>>])

MergeEntity(map, entity, doc) ==
  LET entityId == GenerateEntityId(entity.text, entity.label)
  IN  IF MapHas(map, entityId)
      THEN LET existing == MapGet(map, entityId)
               frequency == existing.properties.frequency + 1
               totalConfidence == existing.properties.totalConfidence + entity.confidence
           IN  MapSet(map,
                 [existing EXCEPT
                    !.documents = Append(existing.documents, doc.url),
                    !.properties = [existing.properties EXCEPT
                       !.frequency = frequency,
                       !.totalConfidence = totalConfidence,
                       !.avgConfidence = Quotient(totalConfidence, frequency)]])
      ELSE MapSet(map,
             [id |-> entityId,
              name |-> entity.text,
              type |-> ToLowerCase(entity.label),
              description |-> GenerateEntityDescription(entity),
              properties |-> [frequency |-> 1,
                              totalConfidence |-> entity.confidence,
                              avgConfidence |-> Quotient(entity.confidence, 1),
                              firstSeen |-> doc.url],
              documents |-> <<doc.url>>])

\* inferRelation with the SATELLITE-INSTRUMENT entry applied in both directions.
InferRelationUndirected(entity1, entity2, doc) ==
  LET id1 == GenerateEntityId(entity1.text, entity1.label)
      id2 == GenerateEntityId(entity2.text, entity2.label)
      l1 == entity1.label
      l2 == entity2.label
      byLabels ==
        IF l1 = "SATELLITE" /\ l2 = "INSTRUMENT" THEN [type |-> "carries", confidence |-> 80]
        ELSE IF l1 = "INSTRUMENT" /\ l2 = "SATELLITE" THEN [type |-> "carries", confidence |-> 80]
        ELSE IF l1 = "INSTRUMENT" /\ l2 = "DATA_PRODUCT" THEN [type |-> "measures", confidence |-> 70]
        ELSE IF l1 = "DATA_PRODUCT" /\ l2 = "INSTRUMENT" THEN [type |-> "measured_by", confidence |-> 70]
        ELSE IF l1 = "ORGANIZATION" /\ l2 = "SATELLITE" THEN [type |-> "operates", confidence |-> 90]
        ELSE IF l1 = "SATELLITE" /\ l2 = "ORGANIZATION" THEN [type |-> "operated_by", confidence |-> 90]
        ELSE IF l1 = "MISSION" /\ l2 = "DATA_PRODUCT" THEN [type |-> "provides", confidence |-> 70]
        ELSE IF l1 = "DATA_PRODUCT" /\ l2 = "MISSION" THEN [type |-> "provided_by", confidence |-> 70]
        ELSE [type |-> "related_to", confidence |-> 60]
      contextStart == Min(entity1.startOffset, entity2.startOffset) - 100
      contextEnd == Max(entity1.endOffset, entity2.endOffset) + 100
      context == ToLowerCase(Substring(doc.content, Max(0, contextStart), contextEnd))
      byLaunch ==
        IF Includes(context, "launched") /\ l1 = "ORGANIZATION" /\ l2 = "SATELLITE"
        THEN [type |-> "launched", confidence |-> 85]
        ELSE byLabels
      byContext ==
        IF Includes(context, "provides") \/ Includes(context, "offers")
        THEN [type |-> "provides", confidence |-> 80]
        ELSE byLaunch
  IN  [id |-> "", source |-> id1, target |-> id2, type |-> byContext.type,
       confidence |-> byContext.confidence, evidence |-> <<>>]

\* inferRelation: the relation of two mentions of a document.
InferRelation(entity1, entity2, doc) ==
  LET id1 == GenerateEntityId(entity1.text, entity1.label)
      id2 == GenerateEntityId(entity2.text, entity2.label)
      l1 == entity1.label
      l2 == entity2.label
      byLabels ==
        IF l1 = "SATELLITE" /\ l2 = "INSTRUMENT" THEN [type |-> "carries", confidence |-> 80]
        ELSE IF l1 = "INSTRUMENT" /\ l2 = "SATELLITE" THEN [type |-> "carried_by", confidence |-> 80]
        ELSE IF l1 = "INSTRUMENT" /\ l2 = "DATA_PRODUCT" THEN [type |-> "measures", confidence |-> 70]
        ELSE IF l1 = "DATA_PRODUCT" /\ l2 = "INSTRUMENT" THEN [type |-> "measured_by", confidence |-> 70]
        ELSE IF l1 = "ORGANIZATION" /\ l2 = "SATELLITE" THEN [type |-> "operates", confidence |-> 90]
        ELSE IF l1 = "SATELLITE" /\ l2 = "ORGANIZATION" THEN [type |-> "operated_by", confidence |-> 90]
        ELSE IF l1 = "MISSION" /\ l2 = "DATA_PRODUCT" THEN [type |-> "provides", confidence |-> 70]
        ELSE IF l1 = "DATA_PRODUCT" /\ l2 = "MISSION" THEN [type |-> "provided_by", confidence |-> 70]
        ELSE [type |-> "related_to", confidence |-> 60]
      contextStart == Min(entity1.startOffset, entity2.startOffset) - 100
      contextEnd == Max(entity1.endOffset, entity2.endOffset) + 100
      context == ToLowerCase(Substring(doc.content, Max(0, contextStart), contextEnd))
      byLaunch ==
        IF Includes(context, "launched") /\ l1 = "ORGANIZATION" /\ l2 = "SATELLITE"
        THEN [type |-> "launched", confidence |-> 85]
        ELSE byLabels
      byContext ==
        IF Includes(context, "provides") \/ Includes(context, "offers")
        THEN [type |-> "provides", confidence |-> 80]
        ELSE byLaunch
  IN  [id |-> "", source |-> id1, target |-> id2, type |-> byContext.type,
       confidence |-> byContext.confidence, evidence |-> <<>>]

\* A merge that adds 0.1 without the cap.
MergeRelationUncapped(map, relation, doc) ==
  LET relationId == relation.source \o "-" \o relation.type \o "-" \o relation.target
  IN  IF MapHas(map, relationId)
      THEN LET existing == MapGet(map, relationId)
           IN  MapSet(map, [existing EXCEPT !.evidence = Append(existing.evidence, doc.url),
                                            !.confidence = existing.confidence + 10])
      ELSE MapSet(map, [relation EXCEPT !.id = relationId, !.evidence = <<doc.url>>])

\* A merge that raises the confidence and records no evidence.
MergeRelationUnrecorded(map, relation, doc) ==
  LET relationId == relation.source \o "-" \o relation.type \o "-" \o relation.target
  IN  IF MapHas(map, relationId)
      THEN LET existing == MapGet(map, relationId)
           IN  MapSet(map, [existing EXCEPT !.evidence = existing.evidence,
                                            !.confidence = Min(100, existing.confidence + 10)])
      ELSE MapSet(map, [relation EXCEPT !.id = relationId, !.evidence = <<doc.url>>])

\* The body of the inner loop of buildRelations, after inferRelation: the
\* relation is merged into the relation Map.
MergeRelation(map, relation, doc) ==
  LET relationId == relation.source \o "-" \o relation.type \o "-" \o relation.target
  IN  IF MapHas(map, relationId)
      THEN LET existing == MapGet(map, relationId)
           IN  MapSet(map, [existing EXCEPT !.evidence = Append(existing.evidence, doc.url),
                                            !.confidence = Min(100, existing.confidence + 10)])
      ELSE MapSet(map, [relation EXCEPT !.id = relationId, !.evidence = <<doc.url>>])

\* The domainKnowledge literal of enhanceWithDomainKnowledge.
DomainKnowledge ==
  <<[source |-> "ISRO", target |-> "MOSDAC", type |-> "operates", confidence |-> 100],
    [source |-> "INSAT-3D", target |-> "Imager", type |-> "carries", confidence |-> 100],
    [source |-> "INSAT-3D", target |-> "Sounder", type |-> "carries", confidence |-> 100],
    [source |-> "Oceansat-3", target |-> "OCM-3", type |-> "carries", confidence |-> 100],
    [source |-> "Oceansat-3", target |-> "SSTM", type |-> "carries", confidence |-> 100],
    [source |-> "Megha-Tropiques", target |-> "MADRAS", type |-> "carries", confidence |-> 100],
    [source |-> "Megha-Tropiques", target |-> "SAPHIR", type |-> "carries", confidence |-> 100]>>

\* A variant of the seeding loop that passes every seed through the merge of
\* buildRelations: a seed already in the store gains evidence.
RECURSIVE AddDomainKnowledgeMerging(_, _)
AddDomainKnowledgeMerging(map, k) ==
  IF k > Len(DomainKnowledge) THEN map
  ELSE LET knowledge == DomainKnowledge[k]
       IN  AddDomainKnowledgeMerging(
             MergeRelation(map,
                           [id |-> "",
                            source |-> knowledge.source,
                            target |-> knowledge.target,
                            type |-> knowledge.type,
                            confidence |-> knowledge.confidence,
                            evidence |-> <<>>],
                           [url |-> "domain_knowledge"]),
             k + 1)

\* The loop of enhanceWithDomainKnowledge over domainKnowledge, from item k on.
RECURSIVE AddDomainKnowledge(_, _)
AddDomainKnowledge(map, k) ==
  IF k > Len(DomainKnowledge) THEN map
  ELSE LET knowledge == DomainKnowledge[k]
           relationId == knowledge.source \o "-" \o knowledge.type \o "-" \o knowledge.target
       IN  AddDomainKnowledge(
             IF MapHas(map, relationId) THEN map
             ELSE MapSet(map, [id |-> relationId,
                               source |-> knowledge.source,
                               target |-> knowledge.target,
                               type |-> knowledge.type,
                               confidence |-> knowledge.confidence,
                               evidence |-> <<"domain_knowledge">>]),
             k + 1)

\* The descriptions literal of enhanceEntityDescriptions.
Descriptions ==
  [name \in {"ISRO", "MOSDAC", "INSAT-3D", "Oceansat-3", "Megha-Tropiques", "Imager",
             "Sounder", "OCM-3", "SSTM", "MADRAS", "SAPHIR"} |->
     CASE name = "ISRO" -> "Indian Space Research Organisation - India's national space agency"
       [] name = "MOSDAC" -> "Meteorological and Oceanographic Satellite Data Archival Centre"
       [] name = "INSAT-3D" -> "Advanced meteorological satellite for weather forecasting and disaster warning"
       [] name = "Oceansat-3" -> "Earth observation satellite for ocean color and sea surface temperature monitoring"
       [] name = "Megha-Tropiques" -> "Indo-French satellite mission for tropical climate studies"
       [] name = "Imager" -> "6-channel imaging radiometer for weather observation"
       [] name = "Sounder" -> "19-channel atmospheric sounder for temperature and humidity profiling"
       [] name = "OCM-3" -> "Ocean Colour Monitor-3 for marine ecosystem studies"
       [] name = "SSTM" -> "Sea Surface Temperature Monitor for ocean temperature measurement"
       [] name = "MADRAS" -> "Microwave radiometer for rain and atmospheric structure detection"
       [] name = "SAPHIR" -> "Humidity sounder for tropical atmospheric profiling"]

\* enhanceEntityDescriptions.
EnhanceEntityDescriptions(map) ==
  [i \in 1..Len(map) |->
     IF map[i].name \in DOMAIN Descriptions
     THEN [map[i] EXCEPT !.description = Descriptions[map[i].name]]
     ELSE map[i]]

(***************************************************************************)
(* The documents buildGraph is given                                       *)
(***************************************************************************)
RECURSIVE Repeat(_, _)
Repeat(s, n) ==
  IF n = 0 THEN ""
  ELSE IF n % 2 = 1 THEN s \o Repeat(s, n - 1)
  ELSE LET half == Repeat(s, n \div 2) IN half \o half

Mention(text, label, confidence, startOffset) ==
  [text |-> text, label |-> label, confidence |-> confidence,
   startOffset |-> startOffset, endOffset |-> startOffset + Len(text)]

\* An organization before a satellite met twice, "launched" between them.
DocLaunch ==
  [url |-> "https://mosdac.gov.in/launch",
   title |-> "Launch",
   content |-> "ISRO launched INSAT-3D in 2013. INSAT-3D is in orbit.",
   entities |-> <<Mention("ISRO", "ORGANIZATION", 95, 0),
                  Mention("INSAT-3D", "SATELLITE", 90, 14),
                  Mention("INSAT-3D", "SATELLITE", 90, 32)>>,
   keywords |-> <<"launch">>]

\* The same organization written two ways, around a satellite.
DocOperations ==
  [url |-> "https://mosdac.gov.in/operations",
   title |-> "Operations",
   content |-> "isro runs Insat-3D from Ahmedabad; ISRO funds it.",
   entities |-> <<Mention("isro", "ORGANIZATION", 95, 0),
                  Mention("Insat-3D", "SATELLITE", 90, 10),
                  Mention("ISRO", "ORGANIZATION", 95, 35)>>,
   keywords |-> <<"operations">>]

\* A data product written with different spacing, once with low confidence,
\* next to "provides".
DocProducts ==
  [url |-> "https://mosdac.gov.in/products",
   title |-> "Products",
   content |-> "Imager provides Sea Surface  Temperature maps, the sea\tsurface temperature.",
   entities |-> <<Mention("Imager", "INSTRUMENT", 85, 0),
                  Mention("Sea Surface  Temperature", "DATA_PRODUCT", 80, 16),
                  Mention("sea\tsurface temperature", "DATA_PRODUCT", 70, 51)>>,
   keywords |-> <<"products">>]

\* Instruments 500 and 600 characters apart.
DocInstruments ==
  [url |-> "https://mosdac.gov.in/instruments",
   title |-> "Instruments",
   content |-> "Imager" \o Repeat(".", 494) \o "MADRAS" \o Repeat(".", 94) \o "Sounder",
   entities |-> <<Mention("Imager", "INSTRUMENT", 85, 0),
                  Mention("MADRAS", "INSTRUMENT", 85, 500),
                  Mention("Sounder", "INSTRUMENT", 85, 600)>>,
   keywords |-> <<"instruments">>]

Documents == <<DocLaunch, DocOperations, DocProducts, DocInstruments>>

MaxDocs == 1
MaxBuilds == 2

\* The document lists buildGraph is called with, as indexes into Documents.
DocumentLists ==
  UNION {[1..n -> 1..Len(Documents)] : n \in 1..MaxDocs}

DocumentsOf(list) == [k \in 1..Len(list) |-> Documents[list[k]]]

(***************************************************************************)
(* buildGraph, one loop iteration at a time                                *)
(***************************************************************************)
\* The iterations of the loops of extractEntities, in order: document and
\* mention.
RECURSIVE EntityIterations(_, _)
EntityIterations(documents, d) ==
  IF d > Len(documents) THEN <<>>
  ELSE [e \in 1..Len(documents[d].entities) |-> [doc |-> d, entity |-> e]]
       \o EntityIterations(documents, d + 1)

\* A variant of the filter that keeps a mention of confidence 0.7.
DocEntitiesFrom07(doc) == SelectSeq(doc.entities, LAMBDA e : e.confidence >= 70)

\* doc.entities.filter(e => e.confidence > 0.7)
DocEntities(doc) == SelectSeq(doc.entities, LAMBDA e : e.confidence > 70)

\* The iterations of the loops of buildRelations over n filtered mentions of
\* document d, in order: i, then j > i.
PairsOfDoc(d, n) ==
  IF n = 0 THEN <<>>
  ELSE SelectSeq([k \in 1..(n * n) |->
                    [doc |-> d, i |-> ((k - 1) \div n) + 1, j |-> ((k - 1) % n) + 1]],
                 LAMBDA p : p.i < p.j)

RECURSIVE RelationIterations(_, _)
RelationIterations(documents, d) ==
  IF d > Len(documents) THEN <<>>
  ELSE PairsOfDoc(d, Len(DocEntities(documents[d])))
       \o RelationIterations(documents, d + 1)

\* history: the documents of every buildGraph call made on the builder, the
\* one under way included, in order.
NoBuild == [pc |-> "idle", documents |-> <<>>, k |-> 0, builds |-> 0, history |-> <<>>]

KgFrame == UNCHANGED <<ragVars, docVars, inferVars, uiVars>>

\* A variant of buildGraph that empties the store before it starts.
BuildGraphOnClearedStore(documents) ==
  /\ kgBuild.pc = "idle"
  /\ kgBuild.builds < MaxBuilds
  /\ kgBuild' = [kgBuild EXCEPT
                   !.pc = IF EntityIterations(documents, 1) = <<>>
                          THEN "buildRelations" ELSE "extractEntities",
                   !.documents = documents,
                   !.k = 1,
                   !.history = kgBuild.history \o documents]
  /\ kgEntities' = <<>>
  /\ kgRelations' = <<>>
  /\ KgFrame

\* buildGraph is called with a list of processed documents.
BuildGraph(documents) ==
  /\ kgBuild.pc = "idle"
  /\ kgBuild.builds < MaxBuilds
  /\ kgBuild' = [kgBuild EXCEPT
                   !.pc = IF EntityIterations(documents, 1) = <<>>
                          THEN "buildRelations" ELSE "extractEntities",
                   !.documents = documents,
                   !.k = 1,
                   !.history = kgBuild.history \o documents]
  /\ UNCHANGED <<kgEntities, kgRelations>>
  /\ KgFrame

\* One iteration of the inner loop of extractEntities.
ExtractEntity ==
  /\ kgBuild.pc = "extractEntities"
  /\ LET iterations == EntityIterations(kgBuild.documents, 1)
         it == iterations[kgBuild.k]
         doc == kgBuild.documents[it.doc]
     IN  /\ kgEntities' = MergeEntity(kgEntities, doc.entities[it.entity], doc)
         /\ kgBuild' = IF kgBuild.k = Len(iterations)
                       THEN [kgBuild EXCEPT !.pc = "buildRelations", !.k = 1]
                       ELSE [kgBuild EXCEPT !.k = kgBuild.k + 1]
  /\ UNCHANGED kgRelations
  /\ KgFrame

\* One iteration of the inner loop of buildRelations.
BuildRelation ==
  /\ kgBuild.pc = "buildRelations"
  /\ kgBuild.k <= Len(RelationIterations(kgBuild.documents, 1))
  /\ LET it == RelationIterations(kgBuild.documents, 1)[kgBuild.k]
         doc == kgBuild.documents[it.doc]
         entity1 == DocEntities(doc)[it.i]
         entity2 == DocEntities(doc)[it.j]
     IN  kgRelations' =
           IF Abs(entity1.startOffset - entity2.startOffset) > 500
           THEN kgRelations
           ELSE MergeRelation(kgRelations, InferRelation(entity1, entity2, doc), doc)
  /\ kgBuild' = [kgBuild EXCEPT !.k = kgBuild.k + 1]
  /\ UNCHANGED kgEntities
  /\ KgFrame

\* enhanceWithDomainKnowledge, and buildGraph returns.
EnhanceWithDomainKnowledge ==
  /\ kgBuild.pc = "buildRelations"
  /\ kgBuild.k > Len(RelationIterations(kgBuild.documents, 1))
  /\ kgRelations' = AddDomainKnowledge(kgRelations, 1)
  /\ kgEntities' = EnhanceEntityDescriptions(kgEntities)
  /\ kgBuild' = [kgBuild EXCEPT !.pc = "idle", !.k = 0, !.builds = kgBuild.builds + 1]
  /\ KgFrame

(***************************************************************************)
(* DocumentProcessor                                                       *)
(***************************************************************************)
\* The class \w of a regular expression.
IsWordChar(c) ==
  c \in UpperSet \cup LowerSet \cup {"0", "1", "2", "3", "4", "5", "6", "7", "8", "9", "_"}

\* The assertion \b between the characters at indexes p and p + 1 (index 0
\* and index Len(text) + 1 stand for the ends of the text).
WordBoundary(text, p) ==
  LET IsWordAt(i) == i >= 1 /\ i <= Len(text) /\ IsWordChar(CharAt(text, i))
  IN  IsWordAt(p) # IsWordAt(p + 1)

\* The least index from i on at which needle occurs in s, or 0.
IndexOfFrom(s, needle, i) ==
  LET hits == {j \in i..(Len(s) - Len(needle) + 1) : SubSeq(s, j, j + Len(needle) - 1) = needle}
  IN  IF hits = {} THEN 0 ELSE CHOOSE j \in hits : \A k \in hits : j <= k

\* One alternative of an entity pattern: a head, then optionally one of
\* [-\s], then \w* (word), or a literal (rest), or nothing.
Alt(head, sep, word, rest) == [head |-> head, sep |-> sep, word |-> word, rest |-> rest]

Word(head) == Alt(head, FALSE, FALSE, "")

\* /\b(INSAT[-\s]?\w*|Oceansat[-\s]?\w*|Megha[-\s]?Tropiques|ScatSat[-\s]?\w*|Kalpana[-\s]?\w*|SARAL[-\s]?\w*)\b/gi
SatellitePattern ==
  <<Alt("INSAT", TRUE, TRUE, ""), Alt("Oceansat", TRUE, TRUE, ""),
    Alt("Megha", TRUE, FALSE, "Tropiques"), Alt("ScatSat", TRUE, TRUE, ""),
    Alt("Kalpana", TRUE, TRUE, ""), Alt("SARAL", TRUE, TRUE, "")>>

\* /\b(Imager|Sounder|OCM[-\s]?\w*|SSTM|MADRAS|SAPHIR|ScaRaB)\b/gi
InstrumentPattern ==
  <<Word("Imager"), Word("Sounder"), Alt("OCM", TRUE, TRUE, ""), Word("SSTM"),
    Word("MADRAS"), Word("SAPHIR"), Word("ScaRaB")>>

\* /\b(ISRO|SAC|MOSDAC|CNES|NASA)\b/gi
OrgPattern == <<Word("ISRO"), Word("SAC"), Word("MOSDAC"), Word("CNES"), Word("NASA")>>

\* /\b(rainfall|temperature|humidity|chlorophyll|SST|precipitation|wind speed)\b/gi
ProductPattern ==
  <<Word("rainfall"), Word("temperature"), Word("humidity"), Word("chlorophyll"),
    Word("SST"), Word("precipitation"), Word("wind speed")>>

\* The index of the last character of the match of one alternative that
\* starts at index start, or 0 when it does not match there.  The optional
\* separator is tried first, \w* is greedy, and \b must hold at the end.
AltEnd(text, lowerText, start, alt) ==
  LET head == ToLowerCase(alt.head)
      p == start + Len(head)
      rest == ToLowerCase(alt.rest)
      TailEnd(q) ==
        IF alt.word
        THEN LET e == NextIndex(text, q, LAMBDA c : ~IsWordChar(c)) - 1
             IN  IF WordBoundary(text, e) THEN e ELSE 0
        ELSE IF rest = ""
             THEN IF WordBoundary(text, q - 1) THEN q - 1 ELSE 0
             ELSE IF q + Len(rest) - 1 <= Len(text)
                     /\ SubSeq(lowerText, q, q + Len(rest) - 1) = rest
                     /\ WordBoundary(text, q + Len(rest) - 1)
                  THEN q + Len(rest) - 1
                  ELSE 0
      withSep == IF alt.sep /\ p <= Len(text)
                    /\ (CharAt(text, p) = "-" \/ IsWhitespace(CharAt(text, p)))
                 THEN TailEnd(p + 1) ELSE 0
  IN  IF p - 1 <= Len(text)
         /\ SubSeq(lowerText, start, p - 1) = head
         /\ WordBoundary(text, start - 1)
      THEN IF withSep > 0 THEN withSep ELSE TailEnd(p)
      ELSE 0

\* The end of the match of a pattern at index start: that of its first
\* alternative that matches there, or 0.
PatternEnd(text, lowerText, start, pattern) ==
  LET fits == {k \in 1..Len(pattern) : AltEnd(text, lowerText, start, pattern[k]) > 0}
  IN  IF fits = {} THEN 0
      ELSE AltEnd(text, lowerText, start, pattern[CHOOSE k \in fits : \A m \in fits : k <= m])

\* The loop "while ((match = pattern.exec(text)) !== null) entities.push(...)"
\* of a global pattern, from index pos on: matches left to right, each
\* search resuming after the previous match.
RECURSIVE ExecLoop(_, _, _, _, _, _)
ExecLoop(text, hits, ends, label, confidence, pos) ==
  LET rest == {j \in hits : j >= pos}
  IN  IF rest = {} THEN <<>>
      ELSE LET j == CHOOSE j \in rest : \A k \in rest : j <= k
           IN  <<[text |-> SubSeq(text, j, ends[j]),
                  label |-> label,
                  confidence |-> confidence,
                  startOffset |-> j - 1,
                  endOffset |-> (j - 1) + (ends[j] - j + 1)]>>
               \o ExecLoop(text, hits, ends, label, confidence, ends[j] + 1)

ExecAll(text, pattern, label, confidence) ==
  LET lowerText == ToLowerCase(text)
      ends == [j \in 1..Len(text) |-> PatternEnd(text, lowerText, j, pattern)]
      hits == {j \in 1..Len(text) : ends[j] > 0}
  IN  ExecLoop(text, hits, ends, label, confidence, 1)

\* private async extractEntities(text)
ExtractEntities(text) ==
  ExecAll(text, SatellitePattern, "SATELLITE", 90)
  \o ExecAll(text, InstrumentPattern, "INSTRUMENT", 85)
  \o ExecAll(text, OrgPattern, "ORGANIZATION", 95)
  \o ExecAll(text, ProductPattern, "DATA_PRODUCT", 80)

\* replace(/<tag[^>]*>[\s\S]*?<\/tag>/gi, ''), from index i on.
RECURSIVE RemoveElementsFrom(_, _, _, _)
RemoveElementsFrom(text, lowerText, tag, i) ==
  LET open == "<" \o tag
      close == "</" \o tag \o ">"
      CloseOf(j) ==
        LET k == IndexOfFrom(text, ">", j + Len(open))
        IN  IF k = 0 THEN 0 ELSE IndexOfFrom(lowerText, close, k + 1)
      starts == {j \in i..Len(text) :
                   /\ j + Len(open) - 1 <= Len(text)
                   /\ SubSeq(lowerText, j, j + Len(open) - 1) = open
                   /\ CloseOf(j) > 0}
  IN  IF starts = {} THEN SubSeq(text, i, Len(text))
      ELSE LET j == CHOOSE j \in starts : \A k \in starts : j <= k
           IN  SubSeq(text, i, j - 1)
               \o RemoveElementsFrom(text, lowerText, tag, CloseOf(j) + Len(close))

RemoveElements(text, tag) == RemoveElementsFrom(text, ToLowerCase(text), tag, 1)

\* replace(/<[^>]*>/g, ' '), from index i on.
RECURSIVE ReplaceTagsFrom(_, _)
ReplaceTagsFrom(text, i) ==
  LET j == IndexOfFrom(text, "<", i)
      k == IF j = 0 THEN 0 ELSE IndexOfFrom(text, ">", j + 1)
  IN  IF k = 0 THEN SubSeq(text, i, Len(text))
      ELSE SubSeq(text, i, j - 1) \o " " \o ReplaceTagsFrom(text, k + 1)

\* replace(/\s+/g, ' '), from index i on.
RECURSIVE CollapseWhitespaceFrom(_, _)
CollapseWhitespaceFrom(s, i) ==
  IF i > Len(s) THEN ""
  ELSE LET w == NextIndex(s, i, IsWhitespace)
           n == NextIndex(s, w, LAMBDA c : ~IsWhitespace(c))
       IN  IF w > Len(s) THEN SubSeq(s, i, Len(s))
           ELSE SubSeq(s, i, w - 1) \o " " \o CollapseWhitespaceFrom(s, n)

\* String.prototype.trim.
Trim(s) ==
  LET kept == {i \in 1..Len(s) : ~IsWhitespace(CharAt(s, i))}
  IN  IF kept = {} THEN ""
      ELSE SubSeq(s, CHOOSE i \in kept : \A k \in kept : i <= k,
                     CHOOSE i \in kept : \A k \in kept : i >= k)

\* The chain of replacements extractCleanText applies to html content.
CleanHtml(content) ==
  Trim(CollapseWhitespaceFrom(
         ReplaceTagsFrom(RemoveElements(RemoveElements(content, "script"), "style"), 1), 1))

\* Crawled documents.  contentIsString is FALSE for a document whose content
\* is undefined (content then holds nothing).
CrawledDocument(url, title, type, contentIsString, content) ==
  [url |-> url, title |-> title, type |-> type, status |-> "pending",
   contentIsString |-> contentIsString, content |-> content]

\* The INSAT-3D page of the knowledge base, crawled as a pdf and as html.
InsatPdf ==
  CrawledDocument(PipelineDocInsat3D.url, PipelineDocInsat3D.title, "pdf", TRUE,
                  PipelineDocInsat3D.content)

InsatHtml ==
  CrawledDocument(PipelineDocInsat3D.url, PipelineDocInsat3D.title, "html", TRUE,
                  PipelineDocInsat3D.content)

\* An html page with tags, a script element and runs of whitespace.
TaggedHtml ==
  CrawledDocument("https://mosdac.gov.in/missions", "Missions", "html", TRUE,
    "<h1>Oceansat 3</h1>\n<script>var isro = 'SAC';</script>\n"
    \o "<p>ISRO  flies <b>Oceansat-3</b>  with OCM-3; SST and wind speed maps.</p>")

\* Documents whose content is not a string.
MalformedHtml ==
  CrawledDocument("https://mosdac.gov.in/broken", "Broken", "html", FALSE, "")

MalformedPdf ==
  CrawledDocument("https://mosdac.gov.in/broken.pdf", "Broken pdf", "pdf", FALSE, "")

CrawledInputs == <<InsatPdf, InsatHtml, TaggedHtml, MalformedHtml, MalformedPdf>>

\* The cleaned text of each html content and the mentions of each text the
\* inputs give, computed once.
HtmlContents ==
  {CrawledInputs[d].content : d \in {x \in 1..Len(CrawledInputs) :
                                       /\ CrawledInputs[x].contentIsString
                                       /\ CrawledInputs[x].type = "html"}}

CleanHtmlTable == [content \in HtmlContents |-> CleanHtml(content)]

\* private extractCleanText(document), for a document whose content is a
\* string.
ExtractCleanText(document) ==
  IF document.type = "html"
  THEN IF document.content \in HtmlContents
       THEN CleanHtmlTable[document.content] ELSE CleanHtml(document.content)
  ELSE document.content

CleanTexts ==
  {ExtractCleanText(CrawledInputs[d]) : d \in {x \in 1..Len(CrawledInputs) :
                                                  CrawledInputs[x].contentIsString}}

ExtractEntitiesTable == [text \in CleanTexts |-> ExtractEntities(text)]

\* The try block of processDocument for a document whose content is a
\* string: the processed document.  Only the fields the graph builder reads
\* are kept; summary, keywords, sections and metadata are left out.
ProcessedDocument(document) ==
  LET cleanContent == ExtractCleanText(document)
      entities == IF cleanContent \in CleanTexts
                  THEN ExtractEntitiesTable[cleanContent]
                  ELSE ExtractEntities(cleanContent)
  IN  [url |-> document.url, title |-> document.title, type |-> document.type,
       content |-> document.content, entities |-> entities, status |-> "completed"]

\* No processDocument call made yet.
NoDocCall == [pc |-> "none", document |-> <<>>, result |-> <<>>, error |-> ""]

DocFrame == UNCHANGED <<ragVars, kgVars, inferVars, uiVars>>

\* processDocument is called: the document's status becomes 'processing'.
ProcessDocument(document) ==
  /\ docCall.pc # "processing"
  /\ kgBuild.pc = "idle"
  /\ docCall' = [pc |-> "processing",
                 document |-> [document EXCEPT !.status = "processing"],
                 result |-> <<>>,
                 error |-> ""]
  /\ DocFrame

\* The try block runs to its end: the call returns the processed document.
ProcessDocumentReturns ==
  /\ docCall.pc = "processing"
  /\ docCall.document.contentIsString
  /\ docCall' = [docCall EXCEPT !.pc = "returned",
                                !.result = ProcessedDocument(docCall.document)]
  /\ DocFrame

\* A step of the try block throws (content.replace in extractCleanText for
\* html, text.split in generateSummary otherwise, content being undefined):
\* the catch block sets the document's status to 'error' and rethrows.
ProcessDocumentThrows ==
  /\ docCall.pc = "processing"
  /\ ~docCall.document.contentIsString
  /\ docCall' = [docCall EXCEPT !.pc = "threw",
                                !.document = [docCall.document EXCEPT !.status = "error"],
                                !.error = "TypeError"]
  /\ DocFrame

\* buildGraph is called with the document processDocument returned.
BuildGraphOfProcessed ==
  /\ docCall.pc = "returned"
  /\ BuildGraph(<<docCall.result>>)

(***************************************************************************)
(* inferRelation on pairs of mentions of every label, in several contexts *)
(***************************************************************************)
\* The labels inferRelation tells apart, and a mention text for each.
PairLabels == {"SATELLITE", "INSTRUMENT", "ORGANIZATION", "DATA_PRODUCT", "MISSION"}

TextOfLabel ==
  [label \in PairLabels |->
     CASE label = "SATELLITE" -> "INSAT-3D"
       [] label = "INSTRUMENT" -> "Imager"
       [] label = "ORGANIZATION" -> "ISRO"
       [] label = "DATA_PRODUCT" -> "rainfall"
       [] label = "MISSION" -> "Megha-Tropiques"]

\* What stands before the first mention, between the two and after the
\* second: no keyword, each keyword, two keywords, a keyword in capitals,
\* keywords at the two edges of the window and just outside it.
PairContexts ==
  <<[before |-> "", between |-> " and ", after |-> " are described here."],
    [before |-> "", between |-> " launched ", after |-> " in 2013."],
    [before |-> "", between |-> " provides ", after |-> " every day."],
    [before |-> "", between |-> " offers ", after |-> " every day."],
    [before |-> "", between |-> " launched ", after |-> ", which provides data."],
    [before |-> "", between |-> " LAUNCHED ", after |-> " with what it Offers."],
    [before |-> "launched" \o Repeat(".", 92), between |-> " and ",
     after |-> Repeat(".", 92) \o "provides"],
    [before |-> "launched" \o Repeat(".", 93), between |-> " and ",
     after |-> Repeat(".", 93) \o "provides"]>>

\* The document of a context around mentions of two labels, and the two
\* mentions.
PairDocument(label1, label2, c) ==
  [url |-> "https://mosdac.gov.in/pair",
   title |-> "Pair",
   content |-> PairContexts[c].before \o TextOfLabel[label1] \o PairContexts[c].between
               \o TextOfLabel[label2] \o PairContexts[c].after,
   entities |-> <<>>,
   keywords |-> <<>>]

FirstMention(label1, c) ==
  Mention(TextOfLabel[label1], label1, 90, Len(PairContexts[c].before))

SecondMention(label1, label2, c) ==
  Mention(TextOfLabel[label2], label2, 90,
          Len(PairContexts[c].before) + Len(TextOfLabel[label1])
            + Len(PairContexts[c].between))

\* The arguments of the inferRelation calls made: every ordered pair of
\* labels in every context.
PairCalls ==
  { [entity1 |-> FirstMention(label1, c),
     entity2 |-> SecondMention(label1, label2, c),
     doc |-> PairDocument(label1, label2, c)] :
      <<label1, label2, c>> \in PairLabels \X PairLabels \X (1..Len(PairContexts)) }

\* No inferRelation call made yet.
NoInferCall == [pc |-> "none", entity1 |-> <<>>, entity2 |-> <<>>, doc |-> <<>>,
                relation |-> <<>>]

\* inferRelation is called and returns.
InferRelationCall(entity1, entity2, doc) ==
  /\ inferCall' = [pc |-> "returned", entity1 |-> entity1, entity2 |-> entity2,
                   doc |-> doc, relation |-> InferRelation(entity1, entity2, doc)]
  /\ UNCHANGED <<ragVars, kgVars, docVars, uiVars>>

(***************************************************************************)
(* DataIngestionPanel: startIngestion and stopIngestion                    *)
(***************************************************************************)
\* const totalUrls = 25.
TotalUrls == 25

\* How many ingestion runs are started.
MaxRuns == 2

\* The panel as mounted: status (phase, progress in tenths, the two document
\* counts), isRunning, the onComplete calls made, and the startIngestion
\* calls with where each stands: the await it is at, the loop index, and
\* whether stopIngestion was called while it was under way.
PanelMounted ==
  [phase |-> "idle", progress |-> 0, documentsFound |-> 0, documentsProcessed |-> 0,
   isRunning |-> FALSE, onCompleteCalls |-> 0, runs |-> <<>>]

UiFrame == UNCHANGED <<ragVars, kgVars, docVars, inferVars>>

\* The Start button is clicked: startIngestion runs to the first timer of
\* its crawling loop.
StartIngestion ==
  /\ ~panel.isRunning
  /\ panel.phase # "complete"
  /\ Len(panel.runs) < MaxRuns
  /\ panel' = [panel EXCEPT
                 !.isRunning = TRUE,
                 !.phase = "crawling",
                 !.progress = 100,
                 !.runs = Append(panel.runs, [pc |-> "crawling", i |-> 0, stopped |-> FALSE])]
  /\ UNCHANGED chat
  /\ UiFrame

\* A timer of the crawling loop of run r resolves: one document is found;
\* after the last one the processing phase begins and stops at its first
\* timer.
CrawlTimer(r) ==
  /\ panel.runs[r].pc = "crawling"
  /\ LET i == panel.runs[r].i
     IN  panel' =
           IF i + 1 < TotalUrls
           THEN [panel EXCEPT !.progress = 100 + (12 * (i + 1)),
                              !.documentsFound = i + 1,
                              !.runs[r].i = i + 1]
           ELSE [panel EXCEPT !.phase = "processing",
                              !.progress = 400,
                              !.documentsFound = TotalUrls,
                              !.runs[r].pc = "processing",
                              !.runs[r].i = 0]
  /\ UNCHANGED chat
  /\ UiFrame

\* A timer of the processing loop of run r resolves: one document is
\* processed; after the last one the building phase begins and stops at its
\* timer.
ProcessTimer(r) ==
  /\ panel.runs[r].pc = "processing"
  /\ LET i == panel.runs[r].i
     IN  panel' =
           IF i + 1 < TotalUrls
           THEN [panel EXCEPT !.progress = 400 + (12 * (i + 1)),
                              !.documentsProcessed = i + 1,
                              !.runs[r].i = i + 1]
           ELSE [panel EXCEPT !.phase = "building-kg",
                              !.progress = 700,
                              !.documentsProcessed = TotalUrls,
                              !.runs[r].pc = "building-kg",
                              !.runs[r].i = 0]
  /\ UNCHANGED chat
  /\ UiFrame

\* The timer of the building phase resolves and buildGraph is awaited.
BuildTimer(r) ==
  /\ panel.runs[r].pc = "building-kg"
  /\ panel' = [panel EXCEPT !.runs[r].pc = "buildGraph"]
  /\ UNCHANGED chat
  /\ UiFrame

\* buildGraph resolves: the indexing phase begins and stops at its timer.
BuildGraphResolves(r) ==
  /\ panel.runs[r].pc = "buildGraph"
  /\ panel' = [panel EXCEPT !.phase = "indexing",
                            !.progress = 900,
                            !.runs[r].pc = "indexing"]
  /\ UNCHANGED chat
  /\ UiFrame

\* The timer of the indexing phase resolves: the run completes, calls
\* onComplete and, in its finally block, resets isRunning.
IndexTimer(r) ==
  /\ panel.runs[r].pc = "indexing"
  /\ panel' = [panel EXCEPT !.phase = "complete",
                            !.progress = 1000,
                            !.onCompleteCalls = panel.onCompleteCalls + 1,
                            !.isRunning = FALSE,
                            !.runs[r].pc = "done"]
  /\ UNCHANGED chat
  /\ UiFrame

\* The Stop button, shown while isRunning, is clicked.
StopIngestion ==
  /\ panel.isRunning
  /\ panel' = [panel EXCEPT
                 !.isRunning = FALSE,
                 !.phase = "idle",
                 !.runs = [r \in 1..Len(panel.runs) |->
                             IF panel.runs[r].pc = "done" THEN panel.runs[r]
                             ELSE [panel.runs[r] EXCEPT !.stopped = TRUE]]]
  /\ UNCHANGED chat
  /\ UiFrame

(***************************************************************************)
(* ChatInterface: handleSendMessage                                        *)
(***************************************************************************)
\* How many times handleSendMessage is invoked.
MaxSends == 3

\* What the input can hold: typed texts, two of them blank, and suggested
\* questions.
TypedTexts == {"", "   ", "rainfall data"}

SuggestedQuestions == {"Tell me about Oceansat-3 mission"}

\* The first message of the chat, and the message of the catch block.
Greeting == [sender |-> "bot", content |-> "Hello! I'm the MOSDAC AI Assistant."]

ErrorApology ==
  "I apologize, but I encountered an error processing your question. "
  \o "Please try again or rephrase your query."

\* What askQuestion gives back: a response with an answer, or a rejection.
AskSettlements == {"response", "throws"}

AnswerTo(question) == "Answer to: " \o question

\* The chat as mounted: the messages, the input, isLoading, the question of
\* the askQuestion call under way, and the counts of askQuestion calls and
\* of handleSendMessage invocations.
ChatMounted ==
  [messages |-> <<Greeting>>, inputValue |-> "", isLoading |-> FALSE, question |-> "",
   askCalls |-> 0, sends |-> 0]

\* The input is set: typed (the field is disabled while isLoading) or taken
\* from a suggested question.
SetInputValue(text) ==
  /\ text \in TypedTexts => ~chat.isLoading
  /\ chat.inputValue # text
  /\ chat' = [chat EXCEPT !.inputValue = text]
  /\ UNCHANGED panel
  /\ UiFrame

\* A handleSendMessage that tests the input only.
HandleSendMessageWhileLoading ==
  /\ chat.sends < MaxSends
  /\ chat' =
       IF Trim(chat.inputValue) = ""
       THEN [chat EXCEPT !.sends = chat.sends + 1]
       ELSE [chat EXCEPT
               !.sends = chat.sends + 1,
               !.messages = Append(chat.messages,
                                   [sender |-> "user", content |-> chat.inputValue]),
               !.inputValue = "",
               !.isLoading = TRUE,
               !.question = chat.inputValue,
               !.askCalls = chat.askCalls + 1]
  /\ UNCHANGED panel
  /\ UiFrame

\* handleSendMessage is invoked: it returns at once on a blank input or
\* while isLoading; else it appends the user message, clears the input,
\* sets isLoading and calls askQuestion.
HandleSendMessage ==
  /\ chat.sends < MaxSends
  /\ chat' =
       IF Trim(chat.inputValue) = "" \/ chat.isLoading
       THEN [chat EXCEPT !.sends = chat.sends + 1]
       ELSE [chat EXCEPT
               !.sends = chat.sends + 1,
               !.messages = Append(chat.messages,
                                   [sender |-> "user", content |-> chat.inputValue]),
               !.inputValue = "",
               !.isLoading = TRUE,
               !.question = chat.inputValue,
               !.askCalls = chat.askCalls + 1]
  /\ UNCHANGED panel
  /\ UiFrame

\* askQuestion settles: the answer or the apology is appended, and the
\* finally block resets isLoading.
AskQuestionSettles(settlement) ==
  /\ chat.isLoading
  /\ chat' = [chat EXCEPT
                !.messages =
                  Append(chat.messages,
                         [sender |-> "bot",
                          content |-> IF settlement = "response"
                                      THEN AnswerTo(chat.question) ELSE ErrorApology]),
                !.isLoading = FALSE,
                !.question = ""]
  /\ UNCHANGED panel
  /\ UiFrame

(***************************************************************************)
(* The specifications                                                      *)
(***************************************************************************)
RagIdle ==
  /\ isInitialized = FALSE
  /\ arrays = [c \in InitCallIds |-> <<>>]
  /\ knowledgeBase = 0
  /\ questionAnsweringPipeline = FALSE
  /\ nerPipeline = FALSE
  /\ embeddingPipeline = FALSE
  /\ initCalls = [c \in InitCallIds |-> IdleCall]
  /\ loads = 0
  /\ metrics = NoMetrics
  /\ ask = NoAsk

KgIdle ==
  /\ kgEntities = <<>>
  /\ kgRelations = <<>>
  /\ kgBuild = NoBuild

DocIdle == docCall = NoDocCall

InferIdle == inferCall = NoInferCall

UiIdle == panel = PanelMounted /\ chat = ChatMounted

\* A RAGService of either module, constructed.
InitRAG ==
  /\ impl \in Impls
  /\ corpus \in Corpora
  /\ RagIdle
  /\ KgIdle
  /\ DocIdle
  /\ InferIdle
  /\ UiIdle

NextRAG ==
  \/ \E c \in InitCallIds : InitializeCall(c)
  \/ \E c \in InitCallIds, outcome \in AnalyticsOutcomes : GroqInitializeFinish(c, outcome)
  \/ \E c \in InitCallIds : PipelineModelLoaded(c)
  \/ \E c \in InitCallIds : PipelineEmbedItem(c)
  \/ \E c \in InitCallIds : PipelineInitializeFails(c)
  \/ \E question \in Questions : AskQuestionNotInitialized(question)
  \/ \E question \in Questions : GroqAskQuestion(question)
  \/ \E outcome \in GroqOutcomes : GroqAskQuestionReturn(outcome)
  \/ \E question \in PipelineQuestions, run \in PipelineRuns(Len(KnowledgeBaseDocs)) :
       PipelineAskQuestion(question, run)
  \/ \E result \in QaOutcomes : PipelineAskQuestionReturn(result)

SpecRAG == InitRAG /\ [][NextRAG]_vars

\* A KnowledgeGraphBuilder, constructed.
InitKG ==
  /\ impl = "groq"
  /\ corpus = "full"
  /\ RagIdle
  /\ KgIdle
  /\ DocIdle
  /\ InferIdle
  /\ UiIdle

NextKG ==
  \/ \E list \in DocumentLists : BuildGraph(DocumentsOf(list))
  \/ ExtractEntity
  \/ BuildRelation
  \/ EnhanceWithDomainKnowledge

SpecKG == InitKG /\ [][NextKG]_vars

\* A DocumentProcessor and a KnowledgeGraphBuilder, constructed: documents
\* are processed one at a time and the graph is built from what
\* processDocument returns.
InitIngest == InitKG

NextIngest ==
  \/ \E d \in 1..Len(CrawledInputs) : ProcessDocument(CrawledInputs[d])
  \/ ProcessDocumentReturns
  \/ ProcessDocumentThrows
  \/ BuildGraphOfProcessed
  \/ ExtractEntity
  \/ BuildRelation
  \/ EnhanceWithDomainKnowledge

SpecIngest == InitIngest /\ [][NextIngest]_vars

\* A KnowledgeGraphBuilder whose inferRelation is applied to pairs of
\* mentions.
InitInfer == InitKG

NextInfer ==
  \E call \in PairCalls : InferRelationCall(call.entity1, call.entity2, call.doc)

SpecInfer == InitInfer /\ [][NextInfer]_vars

\* A RAGService of either module on which initialize() is called several
\* times, a call being free to start while earlier ones are at an await.
MaxConcurrentInits == 2

ConcurrentCallIds == 1..MaxConcurrentInits

InitConcurrent ==
  /\ impl \in Impls
  /\ corpus \in Corpora
  /\ isInitialized = FALSE
  /\ arrays = [c \in ConcurrentCallIds |-> <<>>]
  /\ knowledgeBase = 0
  /\ questionAnsweringPipeline = FALSE
  /\ nerPipeline = FALSE
  /\ embeddingPipeline = FALSE
  /\ initCalls = [c \in ConcurrentCallIds |-> IdleCall]
  /\ loads = 0
  /\ metrics = NoMetrics
  /\ ask = NoAsk
  /\ KgIdle
  /\ DocIdle
  /\ InferIdle
  /\ UiIdle

NextConcurrent ==
  \/ \E c \in ConcurrentCallIds : InitializeCall(c)
  \/ \E c \in ConcurrentCallIds, outcome \in AnalyticsOutcomes : GroqInitializeFinish(c, outcome)
  \/ \E c \in ConcurrentCallIds : PipelineModelLoaded(c)
  \/ \E c \in ConcurrentCallIds : PipelineEmbedItem(c)
  \/ \E c \in ConcurrentCallIds : PipelineInitializeFails(c)

SpecConcurrent == InitConcurrent /\ [][NextConcurrent]_vars

\* A DataIngestionPanel, mounted.
InitPanel == InitKG

NextPanel ==
  \/ StartIngestion
  \/ \E r \in 1..Len(panel.runs) : CrawlTimer(r)
  \/ \E r \in 1..Len(panel.runs) : ProcessTimer(r)
  \/ \E r \in 1..Len(panel.runs) : BuildTimer(r)
  \/ \E r \in 1..Len(panel.runs) : BuildGraphResolves(r)
  \/ \E r \in 1..Len(panel.runs) : IndexTimer(r)
  \/ StopIngestion

SpecPanel == InitPanel /\ [][NextPanel]_vars

\* A ChatInterface, mounted; every askQuestion call settles.
InitChat == InitKG

NextChat ==
  \/ \E text \in TypedTexts \cup SuggestedQuestions : SetInputValue(text)
  \/ HandleSendMessage
  \/ \E settlement \in AskSettlements : AskQuestionSettles(settlement)

SpecChat ==
  /\ InitChat
  /\ [][NextChat]_vars
  /\ WF_vars(\E settlement \in AskSettlements : AskQuestionSettles(settlement))

(***************************************************************************)
(* Properties of RAGService.askQuestion                                    *)
(***************************************************************************)
\* A RAGResponse with its three fields, each source and each entity with the
\* fields of the interface.
WellFormedResponse(call) ==
  /\ call.hasAnswer /\ call.hasSources /\ call.hasEntities
  /\ call.error = ""
  /\ \A i \in 1..Len(call.sources) :
       DOMAIN call.sources[i] = {"title", "url", "snippet", "confidence"}
  /\ \A i \in 1..Len(call.entities) :
       DOMAIN call.entities[i] = {"text", "label", "confidence"}

\* The call produced no response at all.
NoResponse(call) == ~call.hasAnswer /\ ~call.hasSources /\ ~call.hasEntities

\* C1: once the service is initialized, no askQuestion call throws: every
\* step of a call leaves it waiting for the completion service or returned,
\* and a returned call carries a non-empty answer, whatever the completion
\* service did and whether or not a document was retrieved.
C1_InitializedAskAnswers ==
  [][(isInitialized /\ ask' # ask) =>
       /\ ask'.pc \in {"awaiting", "returned"}
       /\ ask'.pc = "returned" => (ask'.hasAnswer /\ Len(ask'.answer) > 0)]_vars

\* C1 witness: no document retrieved, the completion service threw, and the
\* call returned an answer.
C1_Witness ==
  /\ isInitialized
  /\ ask.pc = "returned"
  /\ ask.docs = <<>>
  /\ ask.outcome = "exception"
  /\ ask.hasAnswer

\* C2 as stated: no call, in any state of the service, ends with an error;
\* each returns a well-formed response.
C2_EveryCallReturns ==
  /\ ask.pc # "threw"
  /\ ask.pc = "returned" => WellFormedResponse(ask)

\* C2, amended: a call made once isInitialized is true returns a well-formed
\* RAGResponse and never ends with an error; a call made before that throws
\* 'RAG Service not initialized' to the caller.
C2_CallsReturnOnceInitialized ==
  [][ask' # ask =>
       IF isInitialized
       THEN /\ ask'.pc \in {"awaiting", "returned"}
            /\ ask'.pc = "returned" => WellFormedResponse(ask')
       ELSE /\ ask'.pc = "threw"
            /\ ask'.error = NotInitializedError]_vars

\* C2 witness: a call has thrown while an initialize call was under way.
C2_Witness ==
  /\ ask.pc = "threw"
  /\ ask.error = NotInitializedError
  /\ \E c \in InitCallIds : initCalls[c].pc \notin {"idle", "done", "failed"}

\* The knowledge base of an initialize call is loaded: the array is there
\* and, in the pipeline module, every item has its embedding.
Loaded(c) ==
  /\ arrays[c] # <<>>
  /\ impl = "pipeline" => \A i \in 1..Len(arrays[c]) : arrays[c][i].embedding = "tensor"

\* C3: a call on a service that is not initialized throws, yields no
\* response, makes no call of the completion service, and stays thrown (no
\* step of that call follows); and isInitialized is true only once an
\* initialize call has loaded the knowledge base and finished.
C3_NotInitializedFailsHard ==
  /\ [][(~isInitialized /\ ask' # ask) =>
          /\ ask'.pc = "threw"
          /\ ask'.error = NotInitializedError
          /\ NoResponse(ask')
          /\ ask'.invocations = 0]_vars
  /\ [][(ask.pc = "threw" /\ ask' # ask) => ask'.pc \in {"threw", "awaiting"}]_vars
  /\ [](isInitialized =>
          /\ loads >= 1
          /\ knowledgeBase # 0
          /\ KnowledgeBaseDocs # <<>>
          /\ \E c \in InitCallIds : initCalls[c].pc = "done" /\ Loaded(c))

\* C3 witness: a call has thrown after an initialize call failed, with the
\* knowledge base array already assigned.
C3_Witness ==
  /\ ask.pc = "threw"
  /\ ~isInitialized
  /\ knowledgeBase # 0
  /\ \E c \in InitCallIds : initCalls[c].pc = "failed"

\* The completion service failed: it threw, or it answered with an error.
CompletionFailed(call) == call.invocations = 1 /\ call.outcome \in {"error", "exception"}

\* C4 as stated: the completion service failed and the question contains
\* "rainfall": the answer is the canned rainfall sentence, and there is one
\* source for each document retrieved.
C4_RainfallFallback ==
  (ask.pc = "returned" /\ CompletionFailed(ask)
     /\ Includes(ToLowerCase(ask.question), "rainfall")) =>
    /\ ask.answer = RainfallAnswer
    /\ Len(ask.sources) = Len(ask.docs)
    /\ \A i \in 1..Len(ask.docs) :
         ask.sources[i].title = ask.docs[i].title /\ ask.sources[i].url = ask.docs[i].url

\* The trigger keywords of the fallback and the canned sentences.
FallbackTriggers ==
  {"insat-3d", "oceansat", "data access", "download", "rainfall", "precipitation"}

CannedAnswers == {InsatAnswer, OceansatAnswer, DataAccessAnswer, RainfallAnswer}

\* C5 as stated: the completion service failed or gave no usable answer: the
\* answer is a canned sentence if the lower-cased question contains a
\* trigger; else the attribution phrase and an excerpt of the top document,
\* if there is a document; else the capability statement.
C5_FallbackChain ==
  (ask.pc = "returned" /\ ask.invocations = 1
     /\ ask.outcome \in {"error", "exception", "emptyAnswer", "nullData", "nullResult",
                         "lowScore"}) =>
    IF \E trigger \in FallbackTriggers : Includes(ToLowerCase(ask.question), trigger)
    THEN ask.answer \in CannedAnswers
    ELSE IF ask.docs # <<>>
    THEN \E n \in 1..Len(ask.docs[1].content) :
           ask.answer = ExcerptPrefix \o SubSeq(ask.docs[1].content, 1, n) \o "..."
    ELSE ask.answer = CapabilityAnswer

\* C6 as stated: "What is Oceansat-3?" on a corpus of the INSAT-3D document
\* only: the document scores 0, none is retrieved, and the answer is the
\* capability statement.
C6_ScenarioB ==
  (corpus = "insatOnly" /\ ask.pc = "returned" /\ ask.question = "What is Oceansat-3?") =>
    /\ ask.scores = <<0>>
    /\ ask.docs = <<>>
    /\ ask.answer = CapabilityAnswer

\* The ids of the documents of the corpus, in corpus order.
CorpusIds == [i \in 1..Len(GroqCorpus(corpus)) |-> GroqCorpus(corpus)[i].id]

\* C7 as stated: the documents retrieved are the first three of the
\* documents with a score above 0, by score descending, equal scores in
\* corpus order (a document without a score counts as not above 0).
C7_TopThreeByScore ==
  ask.pc \in {"awaiting", "returned"} =>
    LET positive == {i \in 1..Len(ask.scores) : ask.scores[i] > 0}
        Rank(i) == 1 + Cardinality({j \in positive :
                                      \/ ask.scores[j] > ask.scores[i]
                                      \/ ask.scores[j] = ask.scores[i] /\ j < i})
    IN  /\ Len(ask.docs) = IF Cardinality(positive) < 3 THEN Cardinality(positive) ELSE 3
        /\ \A i \in positive : Rank(i) <= 3 => ask.docs[Rank(i)].id = CorpusIds[i]

\* C8 as stated: two retrievals in a row on the same question and the same
\* knowledge base, the question embedded alike, give the same documents in
\* the same order with the same scores.
C8_RankingDeterministic ==
  [][(/\ ask.pc = "returned"
      /\ ask'.pc = "awaiting"
      /\ ask'.question = ask.question
      /\ ask'.embeddings = ask.embeddings
      /\ ask'.embedded = ask.embedded) => ask'.docs = ask.docs]_vars

(***************************************************************************)
(* Properties of KnowledgeGraphBuilder                                     *)
(***************************************************************************)
RECURSIVE JoinUnderscore(_)
JoinUnderscore(pieces) ==
  IF Len(pieces) = 1 THEN pieces[1]
  ELSE pieces[1] \o "_" \o JoinUnderscore(Tail(pieces))

\* Normalization of a mention text: lower case, each run of whitespace one
\* underscore.
NormalizeText(text) ==
  LET pieces == SplitWhitespace(text)
  IN  JoinUnderscore([p \in 1..Len(pieces) |-> ToLowerCase(pieces[p])])

\* The texts of the mentions of the documents, and their normalizations,
\* computed once.
MentionTexts ==
  UNION {{Documents[d].entities[e].text : e \in 1..Len(Documents[d].entities)} :
          d \in 1..Len(Documents)}

NormalizedTexts == [text \in MentionTexts |-> NormalizeText(text)]

\* The nodes that stand for the mentions of a label and a text: the type is
\* the label and the name normalizes as the text does.
NodesOf(label, text) ==
  {i \in 1..Len(kgEntities) :
     /\ kgEntities[i].type = ToLowerCase(label)
     /\ NormalizedTexts[kgEntities[i].name] = NormalizedTexts[text]}

\* The mentions the buildGraph call under way, or the last one, has merged.
MergedMentions ==
  LET iterations == EntityIterations(kgBuild.documents, 1)
      merged == IF kgBuild.pc = "extractEntities" THEN kgBuild.k - 1 ELSE Len(iterations)
  IN  {kgBuild.documents[iterations[x].doc].entities[iterations[x].entity] : x \in 1..merged}

\* The mention the next iteration of extractEntities merges.
NextMention ==
  LET it == EntityIterations(kgBuild.documents, 1)[kgBuild.k]
  IN  kgBuild.documents[it.doc].entities[it.entity]

\* C9: no two nodes share an id; every merged mention has exactly one node
\* for its label and normalized text; and merging a mention whose label and
\* normalized text have a node updates that node (one more occurrence, one
\* more document) and adds none, while any other mention adds one node.
C9_EntityIdentity ==
  /\ [](/\ \A i, j \in 1..Len(kgEntities) :
             i # j => kgEntities[i].id # kgEntities[j].id
        /\ \A mention \in MergedMentions :
             Cardinality(NodesOf(mention.label, mention.text)) = 1)
  /\ [][(kgBuild.pc = "extractEntities" /\ kgBuild' # kgBuild) =>
          LET nodes == NodesOf(NextMention.label, NextMention.text)
          IN  IF nodes # {}
              THEN /\ Len(kgEntities') = Len(kgEntities)
                   /\ \A i \in nodes :
                        /\ kgEntities'[i].id = kgEntities[i].id
                        /\ kgEntities'[i].properties.frequency =
                             kgEntities[i].properties.frequency + 1
                        /\ Len(kgEntities'[i].documents) = Len(kgEntities[i].documents) + 1
              ELSE Len(kgEntities') = Len(kgEntities) + 1]_vars

\* C9 witness: one node stands for a text met twice, written with different
\* case and spacing.
C9_Witness ==
  \E i \in 1..Len(kgEntities) :
    /\ kgEntities[i].name = "Sea Surface  Temperature"
    /\ kgEntities[i].properties.frequency >= 2
    /\ Cardinality(NodesOf("DATA_PRODUCT", "sea\tsurface temperature")) = 1

\* C10: no relation's confidence is above 1.0; no step removes a relation or
\* lowers its confidence; and a step that touches a stored relation raises
\* its confidence by 0.1, capped at 1.0.
C10_ConfidenceMonotoneCapped ==
  /\ [](\A i \in 1..Len(kgRelations) : kgRelations[i].confidence <= 100)
  /\ [][/\ Len(kgRelations') >= Len(kgRelations)
        /\ \A i \in 1..Len(kgRelations) :
             LET before == kgRelations[i].confidence
                 after == kgRelations'[i].confidence
             IN  /\ kgRelations'[i].id = kgRelations[i].id
                 /\ after >= before
                 /\ kgRelations'[i] # kgRelations[i] =>
                      after = IF before + 10 > 100 THEN 100 ELSE before + 10]_vars

\* C10 witness: a relation inferred at 0.85 was merged three times and stands
\* at 1.0.
C10_Witness ==
  \E i \in 1..Len(kgRelations) :
    /\ kgRelations[i].type = "launched"
    /\ Len(kgRelations[i].evidence) = 3
    /\ kgRelations[i].confidence = 100

(***************************************************************************)
(* Properties of the graph store after buildGraph                          *)
(***************************************************************************)
\* The ids of the entity nodes in the store.
EntityIds == {kgEntities[i].id : i \in 1..Len(kgEntities)}

\* buildGraph has returned at least once and none is running.
AfterBuildGraph == kgBuild.pc = "idle" /\ kgBuild.builds > 0

\* C11: after buildGraph (entity merge, relation building and seeding), the
\* source and the target of every relation in the store are ids of entity
\* nodes in the store.
C11_RelationEndpointsExist ==
  AfterBuildGraph =>
    \A i \in 1..Len(kgRelations) :
      /\ kgRelations[i].source \in EntityIds
      /\ kgRelations[i].target \in EntityIds

\* C11 restricted to the relations built from documents: it is the seeded
\* relations alone that break the claim.
C11_InferredEndpointsExist ==
  \A i \in 1..Len(kgRelations) :
    kgRelations[i].evidence # <<"domain_knowledge">> =>
      /\ kgRelations[i].source \in EntityIds
      /\ kgRelations[i].target \in EntityIds

\* The documents of the buildGraph calls that returned before the one under
\* way (or before the last one).
EarlierDocuments ==
  SubSeq(kgBuild.history, 1, Len(kgBuild.history) - Len(kgBuild.documents))

\* Every (document, mention) of a document list in the order extractEntities
\* visits them.
MentionsOf(documents) ==
  LET iterations == EntityIterations(documents, 1)
  IN  IF iterations = <<>> THEN <<>>
      ELSE [x \in 1..Len(iterations) |->
              [url |-> documents[iterations[x].doc].url,
               entity |-> documents[iterations[x].doc].entities[iterations[x].entity]]]

\* Every (document, mention) merge made on the builder so far, in order.
MergesSoFar ==
  LET current == MentionsOf(kgBuild.documents)
      merged == IF kgBuild.pc = "extractEntities" THEN kgBuild.k - 1 ELSE Len(current)
  IN  MentionsOf(EarlierDocuments) \o SubSeq(current, 1, merged)

\* The labels of the mentions of the documents, and the id generateEntityId
\* gives each text under each label, computed once.
MentionLabels ==
  UNION {{Documents[d].entities[e].label : e \in 1..Len(Documents[d].entities)} :
          d \in 1..Len(Documents)}

EntityIdTable ==
  [text \in MentionTexts |-> [label \in MentionLabels |-> GenerateEntityId(text, label)]]

EntityIdOf(mention) == EntityIdTable[mention.text][mention.label]

\* C12: after any sequence of merges, every merge is folded into a node, the
\* frequency of every node is the number of (document, mention) merges
\* folded into it, and its documents list holds one entry per such merge,
\* the url of the merged document, in the order of the merges.
C12_FrequencyCountsMerges ==
  LET merges == MergesSoFar
      ids == [x \in DOMAIN merges |-> EntityIdOf(merges[x].entity)]
  IN  /\ \A x \in DOMAIN merges : ids[x] \in EntityIds
      /\ \A i \in 1..Len(kgEntities) :
           LET folded == SelectSeq([x \in DOMAIN merges |-> [id |-> ids[x], url |-> merges[x].url]],
                                   LAMBDA m : m.id = kgEntities[i].id)
           IN  /\ kgEntities[i].properties.frequency = Len(folded)
               /\ Len(kgEntities[i].documents) = Len(folded)
               /\ \A x \in 1..Len(folded) : kgEntities[i].documents[x] = folded[x].url

\* C12 witness: buildGraph was called twice on one builder with the same
\* document, which mentions one satellite twice: its node has frequency 4 and
\* lists the document four times.
C12_Witness ==
  /\ kgBuild.builds = 2
  /\ \E i \in 1..Len(kgEntities) :
       /\ kgEntities[i].id = "satellite_insat-3d"
       /\ kgEntities[i].properties.frequency = 4
       /\ kgEntities[i].documents = [x \in 1..4 |-> DocLaunch.url]

\* The ids of the relations in the store, and the ids the seeds are stored
\* under.
RelationIds == {kgRelations[i].id : i \in 1..Len(kgRelations)}

SeedIds ==
  {DomainKnowledge[k].source \o "-" \o DomainKnowledge[k].type \o "-" \o DomainKnowledge[k].target :
     k \in 1..Len(DomainKnowledge)}

\* The step is the seeding of enhanceWithDomainKnowledge.
SeedingStep == kgBuild.pc = "buildRelations" /\ kgBuild'.pc = "idle"

\* C13: the seeding step leaves every relation already in the store as it
\* was (id, type, endpoints, confidence, evidence); every relation it inserts
\* is a seed whose id was absent, with confidence 1.0 and evidence
\* ["domain_knowledge"]; and seeding a store that was seeded before, or
\* seeding again right after, changes no relation.
C13_SeedingFillsGaps ==
  [][SeedingStep =>
       /\ Len(kgRelations') >= Len(kgRelations)
       /\ \A i \in 1..Len(kgRelations) : kgRelations'[i] = kgRelations[i]
       /\ \A i \in (Len(kgRelations) + 1)..Len(kgRelations') :
            /\ kgRelations'[i].id \in SeedIds \ RelationIds
            /\ kgRelations'[i].confidence = 100
            /\ kgRelations'[i].evidence = <<"domain_knowledge">>
       /\ SeedIds \subseteq {kgRelations'[i].id : i \in 1..Len(kgRelations')}
       /\ kgBuild.builds > 0 => kgRelations' = kgRelations
       /\ AddDomainKnowledge(kgRelations', 1) = kgRelations']_vars

\* C13 witness: a store holding relations built from documents was seeded a
\* second time and holds the seven seeds once each.
C13_Witness ==
  /\ kgBuild.pc = "idle"
  /\ kgBuild.builds = 2
  /\ RelationIds \ SeedIds # {}
  /\ Cardinality({i \in 1..Len(kgRelations) : kgRelations[i].id \in SeedIds}) = 7
  /\ \A i \in 1..Len(kgRelations) :
       kgRelations[i].id \in SeedIds => kgRelations[i].evidence = <<"domain_knowledge">>

\* extractEntities of one buildGraph call on a store, from iteration k on.
RECURSIVE ReplayEntities(_, _, _)
ReplayEntities(map, documents, k) ==
  LET iterations == EntityIterations(documents, 1)
  IN  IF k > Len(iterations) THEN map
      ELSE LET doc == documents[iterations[k].doc]
           IN  ReplayEntities(MergeEntity(map, doc.entities[iterations[k].entity], doc),
                              documents, k + 1)

\* The relations buildRelations infers from each of the documents, one per
\* pair of mentions it merges, in the order of its loops; computed once.
InferredRelations ==
  [d \in 1..Len(Documents) |->
     LET doc == Documents[d]
         entities == DocEntities(doc)
         pairs == SelectSeq(PairsOfDoc(d, Len(entities)),
                            LAMBDA p : Abs(entities[p.i].startOffset
                                           - entities[p.j].startOffset) <= 500)
     IN  IF pairs = <<>> THEN <<>>
         ELSE [x \in 1..Len(pairs) |->
                 InferRelation(entities[pairs[x].i], entities[pairs[x].j], doc)]]

\* The merges of buildRelations for one document, from its k-th relation on.
RECURSIVE ReplayDocumentRelations(_, _, _, _)
ReplayDocumentRelations(map, doc, relations, k) ==
  IF k > Len(relations) THEN map
  ELSE ReplayDocumentRelations(MergeRelation(map, relations[k], doc), doc, relations, k + 1)

\* buildRelations of one buildGraph call on a store, from document d on.
RECURSIVE ReplayRelations(_, _, _)
ReplayRelations(map, documents, d) ==
  IF d > Len(documents) THEN map
  ELSE LET doc == documents[d]
           index == CHOOSE x \in 1..Len(Documents) : Documents[x] = doc
       IN  ReplayRelations(ReplayDocumentRelations(map, doc, InferredRelations[index], 1),
                           documents, d + 1)

\* The graph one buildGraph call produces in a fresh store.
Rebuild(documents) ==
  [entities |-> EnhanceEntityDescriptions(ReplayEntities(<<>>, documents, 1)),
   relations |-> AddDomainKnowledge(ReplayRelations(<<>>, documents, 1), 1)]

\* What the round trip compares: the entity ids with their frequencies, the
\* relation ids with their confidences.
Frequencies(entities) ==
  {[id |-> entities[i].id, frequency |-> entities[i].properties.frequency] :
     i \in 1..Len(entities)}

Confidences(relations) ==
  {[id |-> relations[i].id, confidence |-> relations[i].confidence] :
     i \in 1..Len(relations)}

\* C14: whenever buildGraph has returned, replaying in a fresh store the
\* documents the builder was given, in the same order, gives the same graph:
\* the same entity ids with the same frequencies, the same relation ids with
\* the same confidences, and as many nodes and edges.
C14_RebuildRoundTrip ==
  AfterBuildGraph =>
    LET rebuilt == Rebuild(kgBuild.history)
    IN  /\ Frequencies(rebuilt.entities) = Frequencies(kgEntities)
        /\ Confidences(rebuilt.relations) = Confidences(kgRelations)
        /\ Len(rebuilt.entities) = Len(kgEntities)
        /\ Len(rebuilt.relations) = Len(kgRelations)

\* C14 witness: a graph built by two buildGraph calls from two different
\* documents, with a node met in both and relations built from documents.
C14_Witness ==
  /\ AfterBuildGraph
  /\ Len(kgBuild.history) = 2
  /\ kgBuild.history[1] # kgBuild.history[2]
  /\ \E i \in 1..Len(kgEntities) :
       /\ kgEntities[i].properties.frequency >= 2
       /\ kgEntities[i].documents[1] # kgEntities[i].documents[Len(kgEntities[i].documents)]
  /\ RelationIds \ SeedIds # {}

(***************************************************************************)
(* Properties of processDocument followed by buildGraph                    *)
(***************************************************************************)
\* Scenario A: the graph was built from one document, the processed
\* INSAT-3D page.
ScenarioA ==
  /\ AfterBuildGraph
  /\ Len(kgBuild.history) = 1
  /\ kgBuild.history[1].url = PipelineDocInsat3D.url

\* The store holds a relation of a type between two entity ids.
HasEdge(source, type, target) ==
  \E i \in 1..Len(kgRelations) :
    /\ kgRelations[i].source = source
    /\ kgRelations[i].type = type
    /\ kgRelations[i].target = target

\* The extraction half of scenario A: a SATELLITE, an ORGANIZATION and an
\* INSTRUMENT mention are extracted from the INSAT-3D page.
ScenarioAMentions ==
  ScenarioA =>
    \A label \in {"SATELLITE", "ORGANIZATION", "INSTRUMENT"} :
      \E e \in 1..Len(kgBuild.history[1].entities) :
        kgBuild.history[1].entities[e].label = label

\* The first edge of scenario A: ISRO operates INSAT-3D, or INSAT-3D is
\* operated by ISRO.
ScenarioAOperates ==
  ScenarioA =>
    \/ HasEdge("organization_isro", "operates", "satellite_insat-3d")
    \/ HasEdge("satellite_insat-3d", "operated_by", "organization_isro")

\* C15: in scenario A extraction yields a SATELLITE, an ORGANIZATION and an
\* INSTRUMENT mention, and the graph holds an "operates" edge from the ISRO
\* entity to the INSAT-3D entity or an "operated_by" edge back, and a
\* "carries" edge from the INSAT-3D entity to the Imager entity.
C15_ScenarioA ==
  /\ ScenarioAMentions
  /\ ScenarioAOperates
  /\ ScenarioA => HasEdge("satellite_insat-3d", "carries", "instrument_imager")

\* What relation inference yields between INSAT-3D and Imager in scenario A:
\* a "provides" edge of confidence 0.8 merged twice, and no "carries" edge
\* out of the INSAT-3D entity at all.
ScenarioAProvides ==
  ScenarioA =>
    /\ \E i \in 1..Len(kgRelations) :
         /\ kgRelations[i].id = "satellite_insat-3d-provides-instrument_imager"
         /\ kgRelations[i].confidence = 90
    /\ \A i \in 1..Len(kgRelations) :
         kgRelations[i].source = "satellite_insat-3d" => kgRelations[i].type # "carries"

(***************************************************************************)
(* Properties of the entities of a response                                *)
(***************************************************************************)
\* No two entries of an entity list have the same label and texts that are
\* equal ignoring case.
Deduplicated(entities) ==
  \A i, j \in 1..Len(entities) :
    (i # j /\ entities[i].label = entities[j].label)
      => ToUpperCase(entities[i].text) # ToUpperCase(entities[j].text)

\* No two entries of an entity list have the same label and the same text.
DeduplicatedExactly(entities) ==
  \A i, j \in 1..Len(entities) :
    (i # j /\ entities[i].label = entities[j].label) => entities[i].text # entities[j].text

\* C16: the entities list of every response is deduplicated by (upper-cased
\* text, label), whatever the question and the retrieved documents contain.
C16_EntitiesDeduplicated ==
  (ask.pc = "returned" /\ ask.hasEntities) => Deduplicated(ask.entities)

\* What the Groq module does guarantee: within one label no text is listed
\* twice with the same spelling.
GroqEntitiesDeduplicatedExactly ==
  (impl = "groq" /\ ask.pc = "returned" /\ ask.hasEntities)
    => DeduplicatedExactly(ask.entities)

(***************************************************************************)
(* Properties of the completion-service call                               *)
(***************************************************************************)
\* The call to the completion service failed without an answer from it: the
\* invoke (the question-answering pipeline, in the pipeline module) threw.
TransientFailure(call) == call.invocations >= 1 /\ call.outcome = "exception"

\* The completion service answered with an explicit error: the edge function
\* replied with an error status (it does so for a 4xx of the completion API
\* and for a missing API key alike).
ExplicitError(call) == call.invocations >= 1 /\ call.outcome = "error"

\* C17: one query makes at most two calls to the completion service; a query
\* whose call failed transiently has made exactly two, the call and one
\* retry, when it falls back; a query whose call came back with an explicit
\* error has made one.
C17_RetryOnceOnTransientFailure ==
  /\ ask.invocations <= 2
  /\ (ask.pc = "returned" /\ TransientFailure(ask)) => ask.invocations = 2
  /\ (ask.pc = "returned" /\ ExplicitError(ask)) => ask.invocations = 1

\* What the code does: no query makes more than one call, whatever the
\* failure.
AtMostOneInvocation == ask.invocations <= 1

\* C18: a processDocument call on a document whose content cannot be
\* processed does not throw: it returns a processed document with an empty
\* mention list.
C18_ExtractionFailureDegrades ==
  /\ docCall.pc # "threw"
  /\ (docCall.pc = "returned" /\ ~docCall.document.contentIsString)
       => docCall.result.entities = <<>>

\* What the code does on such a document: the call throws, no processed
\* document exists, and the crawled document is marked 'error'.
FailureThrows ==
  (docCall.pc \in {"returned", "threw"} /\ ~docCall.document.contentIsString)
    => /\ docCall.pc = "threw"
       /\ docCall.result = <<>>
       /\ docCall.document.status = "error"

(***************************************************************************)
(* Properties of buildRelations                                            *)
(***************************************************************************)
\* The pairs of mentions of a document, by position in doc.entities, that the
\* claim lets contribute a merge: both of confidence above 0.7, start offsets
\* at most 500 apart.
ContributingPairs(doc) ==
  {p \in (1..Len(doc.entities)) \X (1..Len(doc.entities)) :
     /\ p[1] < p[2]
     /\ doc.entities[p[1]].confidence > 70
     /\ doc.entities[p[2]].confidence > 70
     /\ Abs(doc.entities[p[1]].startOffset - doc.entities[p[2]].startOffset) <= 500}

\* Every relation merge records the url of its document as evidence: the
\* number of merges a relation Map records for the documents of a url.
RECURSIVE MergesRecordedIn(_, _, _)
MergesRecordedIn(relations, url, i) ==
  IF i > Len(relations) THEN 0
  ELSE Cardinality({x \in 1..Len(relations[i].evidence) : relations[i].evidence[x] = url})
       + MergesRecordedIn(relations, url, i + 1)

MergesRecorded(url) == MergesRecordedIn(kgRelations, url, 1)

\* The contributing pairs of each of the documents, and the id of the
\* relation inferRelation and the merge give each of them, computed once.
ContributingTable == [d \in 1..Len(Documents) |-> ContributingPairs(Documents[d])]

PairRelationIds ==
  [d \in 1..Len(Documents) |->
     [i \in 1..Len(Documents[d].entities) |->
        [j \in 1..Len(Documents[d].entities) |->
           IF <<i, j>> \in ContributingPairs(Documents[d])
           THEN LET relation == InferRelation(Documents[d].entities[i],
                                              Documents[d].entities[j], Documents[d])
                IN  relation.source \o "-" \o relation.type \o "-" \o relation.target
           ELSE ""]]]

\* How many times the d-th of the documents was given to the builder.
TimesBuilt(d) ==
  Cardinality({x \in 1..Len(kgBuild.history) : kgBuild.history[x].url = Documents[d].url})

\* C19: whenever buildGraph has returned, every pair of mentions of a
\* document with both confidences above 0.7 and start offsets at most 500
\* apart has its relation in the store, and every relation records for
\* every document as many merges as the document has such pairs inferring
\* that relation (times the number of times the document was built): such a
\* pair contributes one merge, any other pair none.  No step of
\* buildRelations makes more than one merge.
C19_PairsContributeOnce ==
  /\ [](AfterBuildGraph =>
          \A d \in 1..Len(Documents) :
            TimesBuilt(d) > 0 =>
              /\ \A p \in ContributingTable[d] : PairRelationIds[d][p[1]][p[2]] \in RelationIds
              /\ \A i \in 1..Len(kgRelations) :
                   MergesRecordedIn(<<kgRelations[i]>>, Documents[d].url, 1)
                     = TimesBuilt(d)
                       * Cardinality({p \in ContributingTable[d] :
                                        PairRelationIds[d][p[1]][p[2]] = kgRelations[i].id}))
  /\ [][(kgBuild.pc = "buildRelations" /\ kgBuild' # kgBuild) =>
          \A d \in 1..Len(kgBuild.documents) :
            MergesRecordedIn(kgRelations', kgBuild.documents[d].url, 1)
              - MergesRecordedIn(kgRelations, kgBuild.documents[d].url, 1) \in {0, 1}]_vars

\* C19 witness: a graph built from the document with instruments at offsets
\* 0, 500 and 600 and from the document with a mention of confidence 0.7:
\* of the six pairs, three were merged.
C19_Witness ==
  /\ AfterBuildGraph
  /\ Len(kgBuild.history) = 2
  /\ kgBuild.history[1] = DocInstruments
  /\ kgBuild.history[2] = DocProducts
  /\ MergesRecorded(DocInstruments.url) = 2
  /\ MergesRecorded(DocProducts.url) = 1
  /\ Cardinality(ContributingPairs(DocInstruments)) = 2

(***************************************************************************)
(* Properties of inferRelation                                             *)
(***************************************************************************)
\* The context window of a call: the document's text from 100 characters
\* before the earlier start to 100 characters after the later end, in lower
\* case.
ContextWindow(call) ==
  ToLowerCase(Substring(call.doc.content,
                        Max(0, Min(call.entity1.startOffset, call.entity2.startOffset) - 100),
                        Max(call.entity1.endOffset, call.entity2.endOffset) + 100))

\* The call is on an ORGANIZATION-to-SATELLITE pair with "launched" in its
\* context window.
LaunchedPair(call) ==
  /\ call.pc = "returned"
  /\ call.entity1.label = "ORGANIZATION"
  /\ call.entity2.label = "SATELLITE"
  /\ Includes(ContextWindow(call), "launched")

\* C20: when the context window of an ORGANIZATION-to-SATELLITE pair holds
\* the word "launched", the relation inferred has type "launched" and
\* confidence 0.85, whatever else the window holds.
C20_LaunchedWins ==
  LaunchedPair(inferCall) =>
    /\ inferCall.relation.type = "launched"
    /\ inferCall.relation.confidence = 85

\* What the code does for such a pair: "launched" at 0.85 unless the window
\* also holds "provides" or "offers", and then "provides" at 0.8.
LaunchedUnlessProvides ==
  LaunchedPair(inferCall) =>
    IF Includes(ContextWindow(inferCall), "provides")
       \/ Includes(ContextWindow(inferCall), "offers")
    THEN inferCall.relation.type = "provides" /\ inferCall.relation.confidence = 80
    ELSE inferCall.relation.type = "launched" /\ inferCall.relation.confidence = 85

(***************************************************************************)
(* Properties of KnowledgeGraphBuilder.inferRelation without keywords      *)
(***************************************************************************)
\* The directed label pairs that have an entry, with the type and the base
\* confidence of each.
LabelPairTable ==
  <<[from |-> "SATELLITE", to |-> "INSTRUMENT", type |-> "carries", confidence |-> 80],
    [from |-> "INSTRUMENT", to |-> "SATELLITE", type |-> "carried_by", confidence |-> 80],
    [from |-> "INSTRUMENT", to |-> "DATA_PRODUCT", type |-> "measures", confidence |-> 70],
    [from |-> "DATA_PRODUCT", to |-> "INSTRUMENT", type |-> "measured_by", confidence |-> 70],
    [from |-> "ORGANIZATION", to |-> "SATELLITE", type |-> "operates", confidence |-> 90],
    [from |-> "SATELLITE", to |-> "ORGANIZATION", type |-> "operated_by", confidence |-> 90],
    [from |-> "MISSION", to |-> "DATA_PRODUCT", type |-> "provides", confidence |-> 70],
    [from |-> "DATA_PRODUCT", to |-> "MISSION", type |-> "provided_by", confidence |-> 70]>>

\* The entries of the table for a directed pair of labels.
EntriesFor(label1, label2) ==
  { i \in 1..Len(LabelPairTable) :
      LabelPairTable[i].from = label1 /\ LabelPairTable[i].to = label2 }

\* The call has returned and its context window holds none of "launched",
\* "provides" and "offers".
NoBoostKeyword(call) ==
  /\ call.pc = "returned"
  /\ ~Includes(ContextWindow(call), "launched")
  /\ ~Includes(ContextWindow(call), "provides")
  /\ ~Includes(ContextWindow(call), "offers")

\* C21: for a pair whose context window holds no boost keyword, the type and
\* the confidence of the relation are those of the table entry of its
\* directed label pair, and "related_to" with 0.6 when the pair has no entry.
C21_LabelPairTable ==
  NoBoostKeyword(inferCall) =>
    LET entries == EntriesFor(inferCall.entity1.label, inferCall.entity2.label)
    IN  /\ Cardinality(entries) <= 1
        /\ \A i \in entries :
             /\ inferCall.relation.type = LabelPairTable[i].type
             /\ inferCall.relation.confidence = LabelPairTable[i].confidence
        /\ entries = {} =>
             /\ inferCall.relation.type = "related_to"
             /\ inferCall.relation.confidence = 60

\* A SATELLITE-to-INSTRUMENT pair whose document holds "launched" and
\* "provides" just outside the window has been given "carries".
C21_Witness ==
  /\ NoBoostKeyword(inferCall)
  /\ Includes(ToLowerCase(inferCall.doc.content), "provides")
  /\ inferCall.entity1.label = "SATELLITE"
  /\ inferCall.entity2.label = "INSTRUMENT"
  /\ inferCall.relation.type = "carries"

(***************************************************************************)
(* Properties of the order of the pairs of buildRelations                  *)
(***************************************************************************)
\* buildRelations is at a pair of mentions that it does not skip.
AtQualifyingPair ==
  /\ kgBuild.pc = "buildRelations"
  /\ kgBuild.k <= Len(RelationIterations(kgBuild.documents, 1))
  /\ LET it == RelationIterations(kgBuild.documents, 1)[kgBuild.k]
         docEntities == DocEntities(kgBuild.documents[it.doc])
     IN  Abs(docEntities[it.i].startOffset - docEntities[it.j].startOffset) <= 500

\* The mention that becomes the source of the relation of the pair
\* buildRelations is at, and the one that becomes its target.
SourceMention ==
  LET it == RelationIterations(kgBuild.documents, 1)[kgBuild.k]
  IN  DocEntities(kgBuild.documents[it.doc])[it.i]

TargetMention ==
  LET it == RelationIterations(kgBuild.documents, 1)[kgBuild.k]
  IN  DocEntities(kgBuild.documents[it.doc])[it.j]

\* C22: for every relation inferred from a pair of mentions of a document
\* that processDocument returned, the source is the mention with the lower
\* start offset and the target the one with the higher start offset.
C22_SourceBeforeTarget ==
  AtQualifyingPair => SourceMention.startOffset < TargetMention.startOffset

\* What the code does: the source is the mention that stands earlier in the
\* mention list, whose order is SATELLITE, INSTRUMENT, ORGANIZATION,
\* DATA_PRODUCT and by offset only within one label.
LabelRank(label) ==
  CASE label = "SATELLITE" -> 1
    [] label = "INSTRUMENT" -> 2
    [] label = "ORGANIZATION" -> 3
    [] label = "DATA_PRODUCT" -> 4

SourceEarlierInList ==
  AtQualifyingPair =>
    \/ LabelRank(SourceMention.label) < LabelRank(TargetMention.label)
    \/ /\ SourceMention.label = TargetMention.label
       /\ SourceMention.startOffset < TargetMention.startOffset

(***************************************************************************)
(* Properties of the keyword score of findRelevantDocuments                *)
(***************************************************************************)
\* The whitespace-delimited tokens of a text.
Tokens(text) == SelectSeq(SplitWhitespace(text), LAMBDA token : Len(token) > 0)

\* Some text of a list holds the token, case ignored.
OccursIn(texts, token) ==
  \E i \in 1..Len(texts) : Includes(ToLowerCase(texts[i]), token)

\* The score of a document for a question as the scoring rule states it, in
\* tenths: 2 for the first token in the title, and per token longer than 3
\* characters 1 for the body, 1.5 for the keywords, 2 for the entities.
RECURSIVE TokenPoints(_, _)
TokenPoints(doc, tokens) ==
  IF tokens = <<>> THEN 0
  ELSE LET token == Head(tokens)
       IN  (IF Len(token) > 3
            THEN (IF Includes(ToLowerCase(doc.content), token) THEN 10 ELSE 0)
                 + (IF OccursIn(doc.keywords, token) THEN 15 ELSE 0)
                 + (IF OccursIn(doc.entities, token) THEN 20 ELSE 0)
            ELSE 0)
           + TokenPoints(doc, Tail(tokens))

StatedScore(doc, question) ==
  LET tokens == Tokens(ToLowerCase(question))
  IN  (IF tokens # <<>> /\ Includes(ToLowerCase(doc.title), tokens[1]) THEN 20 ELSE 0)
      + TokenPoints(doc, tokens)

\* The Groq module has scored the documents for a question.
Scored == impl = "groq" /\ ask.pc \in {"awaiting", "returned"} /\ ask.scores # <<>>

\* C23: the score of every document is 2 if the title holds the first token
\* of the lowercased question, plus 1, 1.5 and 2 per token longer than 3
\* characters found in the body, the keywords and the entities; a document
\* matching none of these scores 0, also for an empty question and for one
\* that starts with a space.
C23_ScoreFormula ==
  Scored =>
    \A i \in 1..Len(ask.scores) :
      ask.scores[i] = StatedScore(KnowledgeBaseDocs[i], ask.question)

\* What the code does: the formula holds for a question that starts with
\* a token, and for an empty question or one that starts with a space
\* every document gets the 2 of the title check on top of its token points.
ScoreFormulaWithEmptyFirstPiece ==
  Scored =>
    \A i \in 1..Len(ask.scores) :
      ask.scores[i] =
        IF ask.question = "" \/ CharAt(ask.question, 1) = " "
        THEN 20 + TokenPoints(KnowledgeBaseDocs[i], Tokens(ToLowerCase(ask.question)))
        ELSE StatedScore(KnowledgeBaseDocs[i], ask.question)

(***************************************************************************)
(* Properties of the running mean of extractEntities                       *)
(***************************************************************************)
RECURSIVE SumOf(_)
SumOf(numbers) == IF numbers = <<>> THEN 0 ELSE Head(numbers) + SumOf(Tail(numbers))

\* The confidences of the mentions merged so far into the node of an id, in
\* hundredths.
MergedConfidences(merges, id) ==
  LET folded == SelectSeq(merges, LAMBDA m : EntityIdOf(m.entity) = id)
  IN  [x \in 1..Len(folded) |-> folded[x].entity.confidence]

\* C24: after any sequence of merges, the avgConfidence of every node is the
\* sum of the confidences of the mentions merged into it divided by its
\* frequency: avgConfidence * frequency = totalConfidence = that sum.
C24_AvgConfidenceIsMean ==
  LET merges == MergesSoFar
  IN  \A i \in 1..Len(kgEntities) :
        LET properties == kgEntities[i].properties
            total == SumOf(MergedConfidences(merges, kgEntities[i].id))
        IN  /\ properties.totalConfidence = total
            /\ properties.avgConfidence.den > 0
            /\ properties.avgConfidence.num * properties.frequency
                 = total * properties.avgConfidence.den

\* C24 witness: mentions of confidence 0.8 and 0.7 were merged into one node,
\* whose mean 0.75 is the confidence of neither.
C24_Witness ==
  \E i \in 1..Len(kgEntities) :
    /\ kgEntities[i].id = "data_product_sea_surface_temperature"
    /\ kgEntities[i].properties.frequency = 2
    /\ kgEntities[i].properties.totalConfidence = 150
    /\ kgEntities[i].properties.avgConfidence = [num |-> 75, den |-> 1]

(***************************************************************************)
(* Properties of the endpoints of inferred relations                       *)
(***************************************************************************)
\* The relations of the store that were inferred from documents.
InferredFromDocuments ==
  {i \in 1..Len(kgRelations) : kgRelations[i].evidence # <<"domain_knowledge">>}

\* C25: no relation inferred from a document is a self-loop: its source id
\* differs from its target id, also when one entity is mentioned twice
\* within 500 characters.
C25_NoSelfLoops ==
  \A i \in InferredFromDocuments : kgRelations[i].source # kgRelations[i].target

\* What the code does: a relation is a self-loop exactly when it comes from
\* two mentions of one entity, and then its type is "related_to" or
\* "provides".
SelfLoopsFromRepeatedMentions ==
  \A i \in InferredFromDocuments :
    kgRelations[i].source = kgRelations[i].target =>
      /\ kgRelations[i].type \in {"related_to", "provides"}
      /\ \E d \in 1..Len(kgBuild.history) :
           \E x, y \in 1..Len(DocEntities(kgBuild.history[d])) :
             /\ x < y
             /\ EntityIdOf(DocEntities(kgBuild.history[d])[x]) = kgRelations[i].source
             /\ EntityIdOf(DocEntities(kgBuild.history[d])[y]) = kgRelations[i].source

(***************************************************************************)
(* Properties of the confidence of merged relations                        *)
(***************************************************************************)
\* The candidates buildRelations infers from the documents the builder was
\* given, in the order it infers them, each with the id it is stored under.
RECURSIVE CandidatesOf(_, _)
CandidatesOf(documents, d) ==
  IF d > Len(documents) THEN <<>>
  ELSE LET index == CHOOSE x \in 1..Len(Documents) : Documents[x] = documents[d]
           inferred == InferredRelations[index]
       IN  [x \in 1..Len(inferred) |->
              [id |-> inferred[x].source \o "-" \o inferred[x].type \o "-" \o inferred[x].target,
               confidence |-> inferred[x].confidence]]
           \o CandidatesOf(documents, d + 1)

\* The confidence of the candidate that first created the relation of an id.
FirstConfidence(candidates, id) ==
  LET first == CHOOSE x \in 1..Len(candidates) :
                 /\ candidates[x].id = id
                 /\ \A y \in 1..(x - 1) : candidates[y].id # id
  IN  candidates[first].confidence

OffsetsIndex(entities, text) ==
  \A i \in 1..Len(entities) :
    Substring(text, entities[i].startOffset, entities[i].endOffset) = entities[i].text

\* C27: in every ProcessedDocument processDocument returns,
\* content.substring(startOffset, endOffset) is the text of each mention,
\* for every document type, html included.
C27_OffsetsIndexContent ==
  docCall.pc = "returned" =>
    OffsetsIndex(docCall.result.entities, docCall.result.content)

\* What the code does: the offsets index the cleaned text, which is the
\* content for every type but html.
OffsetsIndexCleanText ==
  docCall.pc = "returned" =>
    /\ docCall.result.entities # <<>>
    /\ OffsetsIndex(docCall.result.entities, ExtractCleanText(docCall.document))
    /\ docCall.document.type # "html" =>
         OffsetsIndex(docCall.result.entities, docCall.result.content)

(***************************************************************************)
(* Properties of overlapping initialize() calls                            *)
(***************************************************************************)
\* The step is an initialize() call entered when isInitialized is true.
InitializeWhenInitialized ==
  /\ isInitialized
  /\ \E c \in DOMAIN initCalls : initCalls[c].pc = "idle" /\ initCalls'[c].pc # "idle"

\* C28: however initialize() calls on one RAGService interleave, the
\* knowledge base is loaded at most once; and an initialize() call made once
\* isInitialized is true changes no state.
C28_LoadedAtMostOnce ==
  /\ [](loads <= 1)
  /\ [][InitializeWhenInitialized =>
          UNCHANGED <<impl, corpus, isInitialized, arrays, knowledgeBase,
                      questionAnsweringPipeline, nerPipeline, embeddingPipeline,
                      loads, metrics, ask>>]_vars

\* What the code does: a call made once isInitialized is true returns at
\* once and changes nothing, and every call entered before that loads the
\* knowledge base unless it fails first.
InitializedCallsReturn ==
  /\ [](loads <= Cardinality({c \in DOMAIN initCalls : initCalls[c].pc # "idle"}))
  /\ [][InitializeWhenInitialized =>
          /\ \A c \in DOMAIN initCalls :
               initCalls'[c] # initCalls[c] => initCalls'[c].pc = "done"
          /\ UNCHANGED <<impl, corpus, isInitialized, arrays, knowledgeBase,
                         questionAnsweringPipeline, nerPipeline, embeddingPipeline,
                         loads, metrics, ask>>]_vars

\* Two calls have each loaded the knowledge base and both have returned.
LoadedTwice ==
  /\ loads = 2
  /\ \A c \in DOMAIN initCalls : initCalls[c].pc = "done"

(***************************************************************************)
(* Properties of stopIngestion                                             *)
(***************************************************************************)
\* The runs during which stopIngestion was called.
StoppedRuns == {r \in 1..Len(panel.runs) : panel.runs[r].stopped}

\* C29: once stopIngestion has been called during a run, that run makes no
\* further progress: it never afterwards sets the phase to 'complete' or
\* calls onComplete, and the phase stays 'idle' until a new run is started.
C29_StoppedRunHalts ==
  [][/\ \A r \in StoppedRuns :
          /\ panel'.runs[r].pc = panel.runs[r].pc
          /\ panel'.runs[r].i = panel.runs[r].i
     /\ (StoppedRuns # {} /\ panel.phase = "idle" /\ Len(panel'.runs) = Len(panel.runs)) =>
          /\ panel'.phase = "idle"
          /\ panel'.onCompleteCalls = panel.onCompleteCalls]_vars

\* What the code does: stopIngestion resets isRunning and the phase and
\* leaves every run where it is, free to go on.
StopLeavesRunsGoing ==
  [][(panel.isRunning /\ ~panel'.isRunning /\ panel'.phase = "idle") =>
       /\ \A r \in 1..Len(panel.runs) :
            /\ panel'.runs[r].pc = panel.runs[r].pc
            /\ panel'.runs[r].i = panel.runs[r].i
       /\ \E r \in 1..Len(panel.runs) : panel'.runs[r].pc # "done"]_vars

\* The only run was stopped and has completed all the same.
StoppedRunCompleted ==
  /\ Len(panel.runs) = 1
  /\ panel.runs[1].stopped
  /\ panel.runs[1].pc = "done"
  /\ panel.phase = "complete"
  /\ panel.onCompleteCalls = 1

(***************************************************************************)
(* Properties of handleSendMessage                                         *)
(***************************************************************************)
\* The step is an invocation of handleSendMessage; it is accepted when the
\* input is not blank and isLoading is false.
SendAttempt == chat'.sends = chat.sends + 1

Accepted == Trim(chat.inputValue) # "" /\ ~chat.isLoading

\* After the greeting the messages go user, bot, user, bot, ..., the last
\* one being the user's exactly while isLoading is true.
OneReplyPerSend ==
  /\ chat.messages[1] = Greeting
  /\ \A m \in 2..Len(chat.messages) :
       chat.messages[m].sender = IF m % 2 = 0 THEN "user" ELSE "bot"
  /\ chat.isLoading <=> Len(chat.messages) % 2 = 0
  /\ Len(chat.messages) = 1 + (2 * chat.askCalls) - (IF chat.isLoading THEN 1 ELSE 0)

\* C30: every accepted send appends exactly one user message and calls
\* askQuestion once; it is eventually followed by exactly one bot message,
\* the answer or the error apology, after which isLoading is false again;
\* and a send attempted while isLoading is true (or on a blank input)
\* appends nothing and calls nothing.
C30_SendGetsOneReply ==
  /\ []OneReplyPerSend
  /\ [][SendAttempt =>
          IF Accepted
          THEN /\ chat'.messages = Append(chat.messages,
                                          [sender |-> "user", content |-> chat.inputValue])
               /\ chat'.askCalls = chat.askCalls + 1
               /\ chat'.isLoading
          ELSE /\ chat'.messages = chat.messages
               /\ chat'.askCalls = chat.askCalls
               /\ chat'.isLoading = chat.isLoading]_vars
  /\ [][chat.isLoading =>
          IF chat'.isLoading
          THEN chat'.messages = chat.messages /\ chat'.askCalls = chat.askCalls
          ELSE /\ Len(chat'.messages) = Len(chat.messages) + 1
               /\ SubSeq(chat'.messages, 1, Len(chat.messages)) = chat.messages
               /\ chat'.messages[Len(chat'.messages)].sender = "bot"
               /\ chat'.messages[Len(chat'.messages)].content
                    \in {AnswerTo(chat.messages[Len(chat.messages)].content), ErrorApology}]_vars
  /\ (chat.isLoading ~> ~chat.isLoading)

\* C30 witness: of three invocations one was turned down; the two accepted
\* sends each got one bot message, one the apology and one an answer.
C30_Witness ==
  /\ chat.sends = 3
  /\ chat.askCalls = 2
  /\ ~chat.isLoading
  /\ Len(chat.messages) = 5
  /\ chat.messages[3].content = ErrorApology
  /\ chat.messages[5].content = AnswerTo(chat.messages[4].content)
====
